---- MODULE Spec2Model ----
(***************************************************************************)
(* A model of fermipy/catalog.py: the table utilities (join_tables), the   *)
(* base Catalog constructor, the per-release normalizers, the format       *)
(* dispatcher Catalog.create and the _fill_params routines.                *)
(*                                                                         *)
(* Tables are records [names, kinds, rows]: parallel sequences of column   *)
(* names and numpy dtype kinds ("U" text, "i" signed integer, "u" unsigned *)
(* integer, "b" boolean, "f" floating point), and a sequence of rows, each *)
(* a sequence of cells parallel to names.  A text column is fixed-width:   *)
(* "U" and "S" stand for a width that holds every text of the model, "U16" *)
(* for a column of 16 characters.  A cell is a tagged tuple: see Cells     *)
(* below.                                                                  *)
(***************************************************************************)
EXTENDS Integers, Sequences, FiniteSets, TLC

VARIABLES
    jpc,      \* join_tables: "call" before the call, "done" after it
    jargs,    \* join_tables: the arguments of the call (key names, argsort outcome)
    jheap,    \* join_tables: the objects the caller and the function hold
    jout,     \* join_tables: what the call returned or raised
    registry, \* the Parameter Registry: family -> ordered parameter names
    cfile,    \* the catalog file a constructor reads
    ccall,    \* the constructor call made: the operation and its argument
    cat,      \* the entity the call built, or the exception it raised
    fin,      \* _fill_params: the class and the table it is called with
    fout      \* _fill_params: the table it left, or the exception it raised

vars == <<jpc, jargs, jheap, jout, registry, cfile, ccall, cat, fin, fout>>

(***************************************************************************)
(* Bounds                                                                  *)
(***************************************************************************)
MaxLeft == 3
MaxRight == 2
MaxRows == 2
MaxFillRows == 2
MaxRegistryRows == 1

(***************************************************************************)
(* Sequence helpers                                                        *)
(***************************************************************************)
Range(s) == {s[i] : i \in DOMAIN s}

IndexOf(s, x) == CHOOSE i \in DOMAIN s : s[i] = x /\ \A j \in 1..(i - 1) : s[j] # x

RECURSIVE Flatten(_)
Flatten(ss) == IF ss = <<>> THEN <<>> ELSE Head(ss) \o Flatten(Tail(ss))

RECURSIVE Filter(_, _)
Filter(s, keep) ==
    IF s = <<>> THEN <<>>
    ELSE (IF Head(s) \in keep THEN <<Head(s)>> ELSE <<>>) \o Filter(Tail(s), keep)

SeqsUpTo(S, n) == UNION {[1..k -> S] : k \in 0..n}

Perms(n) == {p \in [1..n -> 1..n] : \A i, j \in 1..n : p[i] = p[j] => i = j}

(***************************************************************************)
(* Cells.  Text is S(string); integers are I(n) and U(n); booleans B(b);   *)
(* a finite float is the exact number m * e^k, written Fl(m, k), with      *)
(* Fin(n) = n; NaN and the two infinities are values of their own.  A cell *)
(* the join found no value for is Masked until out.filled().               *)
(***************************************************************************)
S(x) == <<"s", x>>
I(n) == <<"i", n>>
U(n) == <<"u", n>>
B(b) == <<"b", b>>
Fl(m, k) == <<"f", m, IF m = 0 THEN 0 ELSE k>>
Fin(n) == Fl(n, 0)
NaN == <<"nan", 0, 0>>
Inf == <<"inf", 1, 0>>
NegInf == <<"inf", -1, 0>>
Masked == <<"masked">>

Text(c) == c[2]

\* dtype.kind in ['S', 'U']
TextKinds == {"S", "U", "U16"}

\* a text stored into a column of a dtype: numpy keeps the first characters
\* that fit the width of the column
Truncate(x, kind) == IF kind = "U16" /\ Len(x) > 16 THEN SubSeq(x, 1, 16) ELSE x

(***************************************************************************)
(* The order of text values (numpy sorts text lexicographically; the empty *)
(* string sorts first, a blank before a letter).                           *)
(***************************************************************************)
TextOrder == <<"", " ", "A", "A ", "B", "C">>

Rank(c) == IndexOf(TextOrder, Text(c))

KeyVals == {"", "A", "B"}

Column(t, name) == [i \in DOMAIN t.rows |-> t.rows[i][IndexOf(t.names, name)]]

KindOf(t, name) == t.kinds[IndexOf(t.names, name)]

(***************************************************************************)
(* Floating-point arithmetic on cells, as numpy computes it on float64.    *)
(* The finite values the model computes with are integers and products of  *)
(* an integer with a power of e; the inputs are chosen so that divisions   *)
(* are exact and no finite product is near the overflow threshold.         *)
(***************************************************************************)
IsNaN(x) == x[1] = "nan"

IsInf(x) == x[1] = "inf"

\* np.isfinite
IsFinite(x) == x[1] = "f"

Sign(x) == IF x[2] > 0 THEN 1 ELSE IF x[2] < 0 THEN -1 ELSE 0

SignedInf(sg) == <<"inf", sg, 0>>

\* -1.0 * x
Neg(x) ==
    IF IsNaN(x) THEN NaN
    ELSE IF IsInf(x) THEN SignedInf(-x[2])
    ELSE Fl(-x[2], x[3])

\* x * y: zero times infinity is NaN
Mul(x, y) ==
    IF IsNaN(x) \/ IsNaN(y) THEN NaN
    ELSE IF IsInf(x) \/ IsInf(y)
         THEN (IF Sign(x) * Sign(y) = 0 THEN NaN ELSE SignedInf(Sign(x) * Sign(y)))
    ELSE Fl(x[2] * y[2], x[3] + y[3])

\* x + y, for integers
Add(x, y) ==
    IF IsNaN(x) \/ IsNaN(y) THEN NaN
    ELSE IF IsInf(x) /\ IsInf(y) THEN (IF x = y THEN x ELSE NaN)
    ELSE IF IsInf(x) THEN x
    ELSE IF IsInf(y) THEN y
    ELSE Fin(x[2] + y[2])

\* x / y, for integers x >= 0 and y >= 0 with y = 0 or y a divisor of x:
\* 0/0 is NaN and x/0 is an infinity (numpy warns and goes on)
Div(x, y) ==
    IF IsNaN(x) \/ IsNaN(y) THEN NaN
    ELSE IF IsInf(x) THEN (IF IsInf(y) THEN NaN ELSE SignedInf(Sign(x) * (IF Sign(y) < 0 THEN -1 ELSE 1)))
    ELSE IF IsInf(y) THEN Fin(0)
    ELSE IF y[2] = 0 THEN (IF x[2] = 0 THEN NaN ELSE SignedInf(Sign(x)))
    ELSE Fin(x[2] \div y[2])

\* x ** y, for an integer exponent y >= 0: anything to the power 0 is 1
Pow(x, y) ==
    IF IsNaN(y) THEN (IF x = Fin(1) THEN Fin(1) ELSE NaN)
    ELSE IF y = Fin(0) THEN Fin(1)
    ELSE IF IsNaN(x) THEN NaN
    ELSE IF IsInf(x) THEN (IF Sign(x) > 0 \/ y[2] % 2 = 0 THEN Inf ELSE NegInf)
    ELSE Fin(x[2] ^ y[2])

\* np.exp(x), for an integer x: float64 overflows to infinity above
\* exp(709.78) and underflows to 0 below exp(-745.13)
Exp(x) ==
    IF IsNaN(x) THEN NaN
    ELSE IF IsInf(x) THEN (IF Sign(x) > 0 THEN Inf ELSE Fin(0))
    ELSE IF x[2] > 709 THEN Inf
    ELSE IF x[2] < -745 THEN Fin(0)
    ELSE Fl(1, x[2])

(***************************************************************************)
(* Table helpers (astropy.table.Table)                                     *)
(***************************************************************************)
HasColumn(t, name) == name \in Range(t.names)

\* t[name] = values: the column is replaced where it stands, or appended
SetColumn(t, name, kind, vals) ==
    IF HasColumn(t, name)
    THEN LET ix == IndexOf(t.names, name)
         IN [t EXCEPT !.kinds[ix] = kind,
                      !.rows = [r \in DOMAIN t.rows |-> [t.rows[r] EXCEPT ![ix] = vals[r]]]]
    ELSE [names |-> Append(t.names, name),
          kinds |-> Append(t.kinds, kind),
          rows  |-> [r \in DOMAIN t.rows |-> Append(t.rows[r], vals[r])]]

\* t[name] = value, broadcast to every row
SetScalar(t, name, kind, val) == SetColumn(t, name, kind, [r \in DOMAIN t.rows |-> val])

\* t.remove_column(name)
RemoveColumn(t, name) ==
    LET keep == Filter(t.names, Range(t.names) \ {name})
        ix == [c \in DOMAIN keep |-> IndexOf(t.names, keep[c])]
    IN [names |-> keep,
        kinds |-> [c \in DOMAIN keep |-> t.kinds[ix[c]]],
        rows  |-> [r \in DOMAIN t.rows |-> [c \in DOMAIN keep |-> t.rows[r][ix[c]]]]]

\* t[name][t[name] == old] = new: the column keeps its dtype
Relabel(t, name, old, new) ==
    LET ix == IndexOf(t.names, name)
    IN [t EXCEPT !.rows = [r \in DOMAIN t.rows |->
            [t.rows[r] EXCEPT ![ix] = IF @ = S(old) THEN S(Truncate(new, t.kinds[ix])) ELSE @]]]

\* t.sort(name), the rows taken in the order order
SortRows(t, order) == [t EXCEPT !.rows = [i \in DOMAIN order |-> t.rows[order[i]]]]

\* str.strip() on the text values of the model
Strip(x) ==
    CASE x = " " -> ""
      [] x = "A " -> "A"
      [] OTHER -> x

\* strip_columns(tab)
strip_columns(t) ==
    [t EXCEPT !.rows = [r \in DOMAIN t.rows |-> [c \in DOMAIN t.names |->
        IF t.kinds[c] \in TextKinds THEN S(Strip(Text(t.rows[r][c]))) ELSE t.rows[r][c]]]]

(***************************************************************************)
(* join_tables                                                             *)
(***************************************************************************)
\* right.copy(): the function works on an object of its own
NoCopy(h) == [ref |-> "right", heap |-> h]
CopyTable(h) == [ref |-> "rcopy", heap |-> [h EXCEPT !["rcopy"] = h["right"]]]

\* cols_right: right.colnames (a new list) when omitted, else the listed names
\* that are columns of right (a new list)
ColsRight(cols, rt) ==
    IF cols.none THEN rt.names ELSE Filter(cols.list, Range(rt.names))

\* right[key_right].name = key_left
RenameColumn(t, old, new) ==
    [t EXCEPT !.names = [i \in DOMAIN t.names |-> IF t.names[i] = old THEN new ELSE t.names[i]]]

\* right[cols_right]
SelectColumns(t, cols) ==
    LET ix == [c \in DOMAIN cols |-> IndexOf(t.names, cols[c])]
    IN [names |-> cols,
        kinds |-> [c \in DOMAIN cols |-> t.kinds[ix[c]]],
        rows  |-> [r \in DOMAIN t.rows |-> [c \in DOMAIN cols |-> t.rows[r][ix[c]]]]]

\* the outcomes of numpy's argsort of left's keys: any order of the rows in
\* which the keys ascend (rows of equal key in either order)
ArgSorts(keys) ==
    {p \in Perms(Len(keys)) :
        \A i, j \in DOMAIN keys : i < j => Rank(keys[p[i]]) <= Rank(keys[p[j]])}

\* an inner join: the rows of left that have no row of right are dropped
InnerJoin(left, right, key, order) ==
    LET lk == IndexOf(left.names, key)
        rk == IndexOf(right.names, key)
        others == Filter(right.names, Range(right.names) \ {key})
        oix == [c \in DOMAIN others |-> IndexOf(right.names, others[c])]
        all == [j \in DOMAIN right.rows |-> j]
        match(i) == SelectSeq(all, LAMBDA j : right.rows[j][rk] = left.rows[i][lk])
        part(j) == [c \in DOMAIN others |-> right.rows[j][oix[c]]]
        rowsFor(i) == [m \in DOMAIN match(i) |-> left.rows[i] \o part(match(i)[m])]
    IN [names |-> left.names \o others,
        kinds |-> left.kinds \o [c \in DOMAIN others |-> right.kinds[oix[c]]],
        rows  |-> Flatten([t \in DOMAIN order |-> rowsFor(order[t])])]

\* astropy.table.join(left, right, keys=key, join_type='left'): the rows of
\* left taken in the order order, each paired with every row of right of the
\* same key, or with masked cells when there is none
LeftJoin(left, right, key, order) ==
    LET lk == IndexOf(left.names, key)
        rk == IndexOf(right.names, key)
        others == Filter(right.names, Range(right.names) \ {key})
        oix == [c \in DOMAIN others |-> IndexOf(right.names, others[c])]
        all == [j \in DOMAIN right.rows |-> j]
        match(i) == SelectSeq(all, LAMBDA j : right.rows[j][rk] = left.rows[i][lk])
        blank == [c \in DOMAIN others |-> Masked]
        part(j) == [c \in DOMAIN others |-> right.rows[j][oix[c]]]
        rowsFor(i) ==
            IF match(i) = <<>> THEN <<left.rows[i] \o blank>>
            ELSE [m \in DOMAIN match(i) |-> left.rows[i] \o part(match(i)[m])]
    IN [names |-> left.names \o others,
        kinds |-> left.kinds \o [c \in DOMAIN others |-> right.kinds[oix[c]]],
        rows  |-> Flatten([t \in DOMAIN order |-> rowsFor(order[t])])]

\* the fill value join_tables chooses for a column of a dtype kind
FillValue(kind) ==
    IF kind \in TextKinds THEN S("") ELSE IF kind \in {"i"} THEN I(0) ELSE NaN

\* numpy.ma refuses a fill value it cannot convert to the column's dtype:
\* NaN converts to text and to floating point, not to an integer dtype
Convertible(v, kind) == v = NaN => kind \in TextKinds \cup {"f"}

IsMaskedColumn(t, c) == \E r \in DOMAIN t.rows : t.rows[r][c] = Masked

\* out.filled()
Filled(t) ==
    [t EXCEPT !.rows = [r \in DOMAIN t.rows |-> [c \in DOMAIN t.names |->
        IF t.rows[r][c] = Masked THEN FillValue(t.kinds[c]) ELSE t.rows[r][c]]]]

NoTable == [names |-> <<>>, kinds |-> <<>>, rows |-> <<>>]

Raise(h, what) == [heap |-> h, status |-> what, table |-> NoTable]

\* the whole call: the heap afterwards and the table returned or the error raised
join_tables(h, key_left, key_right, order) ==
    LET cp == CopyTable(h)
        h1 == cp.heap
        right == cp.ref
        \* cols_right is rebound to a new list object, "clist"
        h2 == [h1 EXCEPT !["clist"] = ColsRight(h1["cols"], h1[right])]
        rename == key_left # key_right
        h3 == IF rename
              THEN [h2 EXCEPT ![right] = RenameColumn(h2[right], key_right, key_left)]
              ELSE h2
        h4 == IF key_left \notin Range(h3["clist"])
              THEN [h3 EXCEPT !["clist"] = h3["clist"] \o <<key_left>>]
              ELSE h3
        joined == LeftJoin(h4["left"], SelectColumns(h4[right], h4["clist"]), key_left, order)
    IN IF rename /\ key_right \notin Range(h2[right].names)
         THEN Raise(h2, "KeyError")
       ELSE IF rename /\ key_left \in Range(h2[right].names)
         THEN Raise(h2, "KeyError")
       ELSE IF ~(Range(h4["clist"]) \subseteq Range(h4[right].names))
         THEN Raise(h4, "KeyError")
       ELSE IF key_left \notin Range(h4["left"].names)
         THEN Raise(h4, "TableMergeError")
       ELSE IF \E c \in DOMAIN joined.names :
                  IsMaskedColumn(joined, c) /\ ~Convertible(FillValue(joined.kinds[c]), joined.kinds[c])
         THEN Raise(h4, "TypeError")
       ELSE [heap |-> h4, status |-> "ok", table |-> Filled(joined)]

(***************************************************************************)
(* Catalog.__init__: the base constructor.  An entity is a record: status  *)
(* "ok" or the error raised, the class, the table, and the coordinate      *)
(* arrays derived at construction.                                         *)
(***************************************************************************)
Cell(t, r, name) == t.rows[r][IndexOf(t.names, name)]

\* SkyCoord(...).galactic: the transformation is astropy's
Galactic(ra, dec) == <<"galactic", ra, dec>>

Failed(class, what, t) ==
    [status |-> what, class |-> class, table |-> t, radec |-> <<>>, glonlat |-> <<>>]

\* Column(dtype='S20', length=len(table)): an empty text per row
EmptyTextColumn(t, name) == SetScalar(t, name, "S", S(""))

\* (Spatial_Filename != '') | (Spatial_Function != '')
ExtendedMaskBoth(filename, function) == filename # S("") /\ function # S("")

ExtendedMask(filename, function) == filename # S("") \/ function # S("")

\* the base constructor asking for RAJ2000 only: a table without DEJ2000
\* gets its columns, and the right ascension for a declination
Catalog_initRAOnly(class, table, extdir) ==
    IF ~HasColumn(table, "RAJ2000")
    THEN Failed(class, "KeyError", table)
    ELSE LET dec == IF HasColumn(table, "DEJ2000") THEN "DEJ2000" ELSE "RAJ2000"
             t1 == IF ~HasColumn(table, "Spatial_Filename")
                   THEN EmptyTextColumn(table, "Spatial_Filename") ELSE table
             t2 == IF ~HasColumn(t1, "Spatial_Function")
                   THEN EmptyTextColumn(t1, "Spatial_Function") ELSE t1
             m == [r \in DOMAIN t2.rows |->
                      ExtendedMask(Cell(t2, r, "Spatial_Filename"), Cell(t2, r, "Spatial_Function"))]
             t3 == SetColumn(t2, "extended", "b", [r \in DOMAIN t2.rows |-> B(m[r])])
             t4 == SetScalar(t3, "extdir", "U", S(extdir))
         IN [status |-> "ok", class |-> class, table |-> t4,
             radec |-> [r \in DOMAIN table.rows |->
                           <<Cell(table, r, "RAJ2000"), Cell(table, r, dec)>>],
             glonlat |-> [r \in DOMAIN table.rows |->
                           Galactic(Cell(table, r, "RAJ2000"), Cell(table, r, dec))]]

Catalog_init(class, table, extdir) ==
    IF ~HasColumn(table, "RAJ2000") \/ ~HasColumn(table, "DEJ2000")
    THEN Failed(class, "KeyError", table)
    ELSE LET t1 == IF ~HasColumn(table, "Spatial_Filename")
                   THEN EmptyTextColumn(table, "Spatial_Filename") ELSE table
             t2 == IF ~HasColumn(t1, "Spatial_Function")
                   THEN EmptyTextColumn(t1, "Spatial_Function") ELSE t1
             m == [r \in DOMAIN t2.rows |->
                      ExtendedMask(Cell(t2, r, "Spatial_Filename"), Cell(t2, r, "Spatial_Function"))]
             t3 == SetColumn(t2, "extended", "b", [r \in DOMAIN t2.rows |-> B(m[r])])
             t4 == SetScalar(t3, "extdir", "U", S(extdir))
         IN [status |-> "ok", class |-> class, table |-> t4,
             radec |-> [r \in DOMAIN table.rows |->
                           <<Cell(table, r, "RAJ2000"), Cell(table, r, "DEJ2000")>>],
             glonlat |-> [r \in DOMAIN table.rows |->
                           Galactic(Cell(table, r, "RAJ2000"), Cell(table, r, "DEJ2000"))]]

(***************************************************************************)
(* _fill_params.  A param_values cell is Vec(v), v the 10 slots (slot i of *)
(* the code is v[i + 1]).  reg is the Parameter Registry: the ordered list *)
(* of parameter names get_function_par_names returns for each family.      *)
(***************************************************************************)
NSlots == 10

Vec(v) == <<"v", v>>

Slots(c) == c[2]

\* tab['param_values'] = np.nan * np.ones((len(tab), 10))
NewParamValues(t) == SetScalar(t, "param_values", "f", Vec([i \in 1..NSlots |-> NaN]))

\* idxs = {k: i for i, k in enumerate(get_function_par_names(fn))}
Idx(reg, fn, name) == IndexOf(reg[fn], name) - 1

\* tab['param_values'][m, idx] = val[m], with m = tab['SpectrumType'] == fn
AssignNone(t, fn, idx, val) == t

AssignSlot(t, fn, idx, val) ==
    LET pv == IndexOf(t.names, "param_values")
    IN [t EXCEPT !.rows = [r \in DOMAIN t.rows |->
            IF Cell(t, r, "SpectrumType") = S(fn)
            THEN [t.rows[r] EXCEPT ![pv] = Vec([Slots(@) EXCEPT ![idx + 1] = val[r]])]
            ELSE t.rows[r]]]

Needs(t, cols) == \A c \in cols : HasColumn(t, c)

NoParams(t) == [status |-> "KeyError", table |-> t]

\* Catalog2FHL._fill_params: the slots are the literals 0, 1, 2
fill_params_2FHL(tab, reg) ==
    IF ~Needs(tab, {"SpectrumType", "Flux_Density", "Spectral_Index", "Pivot_Energy"})
    THEN NoParams(tab)
    ELSE LET t0 == NewParamValues(tab)
             t1 == AssignSlot(t0, "PowerLaw", 0, [r \in DOMAIN tab.rows |-> Cell(tab, r, "Flux_Density")])
             t2 == AssignSlot(t1, "PowerLaw", 1, [r \in DOMAIN tab.rows |-> Neg(Cell(tab, r, "Spectral_Index"))])
             t3 == AssignSlot(t2, "PowerLaw", 2, [r \in DOMAIN tab.rows |-> Cell(tab, r, "Pivot_Energy")])
         IN [status |-> "ok", table |-> t3]

\* the PowerLaw block with the index copied as it is
FillPowerLawUnsigned(t, tab, reg, flux, index) ==
    LET t1 == AssignSlot(t, "PowerLaw", Idx(reg, "PowerLaw", "Prefactor"),
                         [r \in DOMAIN tab.rows |-> Cell(tab, r, flux)])
        t2 == AssignSlot(t1, "PowerLaw", Idx(reg, "PowerLaw", "Index"),
                         [r \in DOMAIN tab.rows |-> Cell(tab, r, index)])
    IN AssignSlot(t2, "PowerLaw", Idx(reg, "PowerLaw", "Scale"),
                  [r \in DOMAIN tab.rows |-> Cell(tab, r, "Pivot_Energy")])

\* the PowerLaw block common to the registry-driven _fill_params
FillPowerLaw(t, tab, reg, flux, index) ==
    LET t1 == AssignSlot(t, "PowerLaw", Idx(reg, "PowerLaw", "Prefactor"),
                         [r \in DOMAIN tab.rows |-> Cell(tab, r, flux)])
        t2 == AssignSlot(t1, "PowerLaw", Idx(reg, "PowerLaw", "Index"),
                         [r \in DOMAIN tab.rows |-> Neg(Cell(tab, r, index))])
    IN AssignSlot(t2, "PowerLaw", Idx(reg, "PowerLaw", "Scale"),
                  [r \in DOMAIN tab.rows |-> Cell(tab, r, "Pivot_Energy")])

\* the LogParabola block
FillLogParabola(t, tab, reg, flux, index, beta) ==
    LET t1 == AssignSlot(t, "LogParabola", Idx(reg, "LogParabola", "norm"),
                         [r \in DOMAIN tab.rows |-> Cell(tab, r, flux)])
        t2 == AssignSlot(t1, "LogParabola", Idx(reg, "LogParabola", "alpha"),
                         [r \in DOMAIN tab.rows |-> Cell(tab, r, index)])
        t3 == AssignSlot(t2, "LogParabola", Idx(reg, "LogParabola", "beta"),
                         [r \in DOMAIN tab.rows |-> Cell(tab, r, beta)])
    IN AssignSlot(t3, "LogParabola", Idx(reg, "LogParabola", "Eb"),
                  [r \in DOMAIN tab.rows |-> Cell(tab, r, "Pivot_Energy")])

\* the PLSuperExpCutoff block of 3FGL:
\* Prefactor = Flux_Density * exp((Pivot_Energy / Cutoff) ** Exp_Index)
FillPLSuperExpCutoff(t, tab, reg) ==
    LET fn == "PLSuperExpCutoff"
        t1 == AssignSlot(t, fn, Idx(reg, fn, "Prefactor"),
                [r \in DOMAIN tab.rows |-> Mul(Cell(tab, r, "Flux_Density"),
                               Exp(Pow(Div(Cell(tab, r, "Pivot_Energy"), Cell(tab, r, "Cutoff")),
                                       Cell(tab, r, "Exp_Index"))))])
        t2 == AssignSlot(t1, fn, Idx(reg, fn, "Index1"), [r \in DOMAIN tab.rows |-> Neg(Cell(tab, r, "Spectral_Index"))])
        t3 == AssignSlot(t2, fn, Idx(reg, fn, "Scale"), [r \in DOMAIN tab.rows |-> Cell(tab, r, "Pivot_Energy")])
        t4 == AssignSlot(t3, fn, Idx(reg, fn, "Cutoff"), [r \in DOMAIN tab.rows |-> Cell(tab, r, "Cutoff")])
    IN AssignSlot(t4, fn, Idx(reg, fn, "Index2"), [r \in DOMAIN tab.rows |-> Cell(tab, r, "Exp_Index")])

\* the PLSuperExpCutoff2 block with the flux density copied as it is
FillPLSuperExpCutoff2NoExp(t, tab, reg, flux) ==
    LET fn == "PLSuperExpCutoff2"
        t1 == AssignSlot(t, fn, Idx(reg, fn, "Prefactor"), [r \in DOMAIN tab.rows |-> Cell(tab, r, flux)])
        t2 == AssignSlot(t1, fn, Idx(reg, fn, "Index1"), [r \in DOMAIN tab.rows |-> Neg(Cell(tab, r, "PLEC_Index"))])
        t3 == AssignSlot(t2, fn, Idx(reg, fn, "Scale"), [r \in DOMAIN tab.rows |-> Cell(tab, r, "Pivot_Energy")])
        t4 == AssignSlot(t3, fn, Idx(reg, fn, "Expfactor"), [r \in DOMAIN tab.rows |-> Cell(tab, r, "PLEC_Expfactor")])
    IN AssignSlot(t4, fn, Idx(reg, fn, "Index2"), [r \in DOMAIN tab.rows |-> Cell(tab, r, "PLEC_Exp_Index")])

\* the PLSuperExpCutoff2 block of FL8Y, 4FGL and 4FGL-DR2:
\* Prefactor = flux * exp(PLEC_Expfactor * Pivot_Energy ** PLEC_Exp_Index)
FillPLSuperExpCutoff2(t, tab, reg, flux) ==
    LET fn == "PLSuperExpCutoff2"
        t1 == AssignSlot(t, fn, Idx(reg, fn, "Prefactor"),
                [r \in DOMAIN tab.rows |-> Mul(Cell(tab, r, flux),
                               Exp(Mul(Cell(tab, r, "PLEC_Expfactor"),
                                       Pow(Cell(tab, r, "Pivot_Energy"), Cell(tab, r, "PLEC_Exp_Index")))))])
        t2 == AssignSlot(t1, fn, Idx(reg, fn, "Index1"), [r \in DOMAIN tab.rows |-> Neg(Cell(tab, r, "PLEC_Index"))])
        t3 == AssignSlot(t2, fn, Idx(reg, fn, "Scale"), [r \in DOMAIN tab.rows |-> Cell(tab, r, "Pivot_Energy")])
        t4 == AssignSlot(t3, fn, Idx(reg, fn, "Expfactor"), [r \in DOMAIN tab.rows |-> Cell(tab, r, "PLEC_Expfactor")])
    IN AssignSlot(t4, fn, Idx(reg, fn, "Index2"), [r \in DOMAIN tab.rows |-> Cell(tab, r, "PLEC_Exp_Index")])

\* the PLSuperExpCutoff4 block of 4FGL-DR3 and 4FGL-DR4
FillPLSuperExpCutoff4(t, tab, reg) ==
    LET fn == "PLSuperExpCutoff4"
        t1 == AssignSlot(t, fn, Idx(reg, fn, "Prefactor"), [r \in DOMAIN tab.rows |-> Cell(tab, r, "PLEC_Flux_Density")])
        t2 == AssignSlot(t1, fn, Idx(reg, fn, "IndexS"), [r \in DOMAIN tab.rows |-> Neg(Cell(tab, r, "PLEC_IndexS"))])
        t3 == AssignSlot(t2, fn, Idx(reg, fn, "Scale"), [r \in DOMAIN tab.rows |-> Cell(tab, r, "Pivot_Energy")])
        t4 == AssignSlot(t3, fn, Idx(reg, fn, "ExpfactorS"), [r \in DOMAIN tab.rows |-> Cell(tab, r, "PLEC_ExpfactorS")])
    IN AssignSlot(t4, fn, Idx(reg, fn, "Index2"), [r \in DOMAIN tab.rows |-> Cell(tab, r, "PLEC_Exp_Index")])

\* Catalog3FGL._fill_params
fill_params_3FGL(tab, reg) ==
    IF ~Needs(tab, {"SpectrumType", "Flux_Density", "Spectral_Index", "Pivot_Energy",
                    "Cutoff", "Exp_Index", "beta"})
    THEN NoParams(tab)
    ELSE LET t1 == FillPowerLaw(NewParamValues(tab), tab, reg, "Flux_Density", "Spectral_Index")
             t2 == FillPLSuperExpCutoff(t1, tab, reg)
         IN [status |-> "ok",
             table |-> FillLogParabola(t2, tab, reg, "Flux_Density", "Spectral_Index", "beta")]

\* Catalog4FGL._fill_params
fill_params_4FGL(tab, reg) ==
    IF ~Needs(tab, {"SpectrumType", "PL_Flux_Density", "PL_Index", "Pivot_Energy",
                    "PLEC_Flux_Density", "PLEC_Expfactor", "PLEC_Exp_Index", "PLEC_Index",
                    "LP_Flux_Density", "LP_Index", "LP_beta"})
    THEN NoParams(tab)
    ELSE LET t1 == FillPowerLaw(NewParamValues(tab), tab, reg, "PL_Flux_Density", "PL_Index")
             t2 == FillPLSuperExpCutoff2(t1, tab, reg, "PLEC_Flux_Density")
         IN [status |-> "ok",
             table |-> FillLogParabola(t2, tab, reg, "LP_Flux_Density", "LP_Index", "LP_beta")]

\* Catalog4FGLDR2._fill_params
fill_params_4FGLDR2(tab, reg) ==
    IF ~Needs(tab, {"SpectrumType", "PL_Flux_Density", "PL_Index", "Pivot_Energy",
                    "PLEC_Flux_Density", "PLEC_Expfactor", "PLEC_Exp_Index", "PLEC_Index",
                    "LP_Flux_Density", "LP_Index", "LP_beta"})
    THEN NoParams(tab)
    ELSE LET t1 == FillPowerLaw(NewParamValues(tab), tab, reg, "PL_Flux_Density", "PL_Index")
             t2 == FillPLSuperExpCutoff2(t1, tab, reg, "PLEC_Flux_Density")
         IN [status |-> "ok",
             table |-> FillLogParabola(t2, tab, reg, "LP_Flux_Density", "LP_Index", "LP_beta")]

\* CatalogFL8Y._fill_params
fill_params_FL8Y(tab, reg) ==
    IF ~Needs(tab, {"SpectrumType", "Flux_Density", "PL_Index", "Pivot_Energy",
                    "PLEC_Expfactor", "PLEC_Exp_Index", "PLEC_Index", "LP_Index", "LP_beta"})
    THEN NoParams(tab)
    ELSE LET t1 == FillPowerLaw(NewParamValues(tab), tab, reg, "Flux_Density", "PL_Index")
             t2 == FillPLSuperExpCutoff2(t1, tab, reg, "Flux_Density")
         IN [status |-> "ok",
             table |-> FillLogParabola(t2, tab, reg, "Flux_Density", "LP_Index", "LP_beta")]

\* Catalog4FGLDR3._fill_params
fill_params_4FGLDR3(tab, reg) ==
    IF ~Needs(tab, {"SpectrumType", "PL_Flux_Density", "PL_Index", "Pivot_Energy",
                    "PLEC_Flux_Density", "PLEC_IndexS", "PLEC_ExpfactorS", "PLEC_Exp_Index",
                    "LP_Flux_Density", "LP_Index", "LP_beta"})
    THEN NoParams(tab)
    ELSE LET t1 == FillPowerLaw(NewParamValues(tab), tab, reg, "PL_Flux_Density", "PL_Index")
             t2 == FillPLSuperExpCutoff4(t1, tab, reg)
         IN [status |-> "ok",
             table |-> FillLogParabola(t2, tab, reg, "LP_Flux_Density", "LP_Index", "LP_beta")]

\* Catalog4FGLDR4._fill_params
fill_params_4FGLDR4(tab, reg) ==
    IF ~Needs(tab, {"SpectrumType", "PL_Flux_Density", "PL_Index", "Pivot_Energy",
                    "PLEC_Flux_Density", "PLEC_IndexS", "PLEC_ExpfactorS", "PLEC_Exp_Index",
                    "LP_Flux_Density", "LP_Index", "LP_beta"})
    THEN NoParams(tab)
    ELSE LET t1 == FillPowerLaw(NewParamValues(tab), tab, reg, "PL_Flux_Density", "PL_Index")
             t2 == FillPLSuperExpCutoff4(t1, tab, reg)
         IN [status |-> "ok",
             table |-> FillLogParabola(t2, tab, reg, "LP_Flux_Density", "LP_Index", "LP_beta")]

\* the _fill_params of a class
fill_params(class, tab, reg) ==
    CASE class = "Catalog2FHL" -> fill_params_2FHL(tab, reg)
      [] class = "Catalog3FGL" -> fill_params_3FGL(tab, reg)
      [] class = "Catalog4FGL" -> fill_params_4FGL(tab, reg)
      [] class = "CatalogFL8Y" -> fill_params_FL8Y(tab, reg)
      [] class = "Catalog4FGLDR2" -> fill_params_4FGLDR2(tab, reg)
      [] class = "Catalog4FGLDR3" -> fill_params_4FGLDR3(tab, reg)
      [] class = "Catalog4FGLDR4" -> fill_params_4FGLDR4(tab, reg)

\* get_function_par_names, in the order fermipy's model registry lists them
\* (the order the comments of _fill_params give)
CanonicalRegistry ==
    [PowerLaw |-> <<"Prefactor", "Index", "Scale">>,
     LogParabola |-> <<"norm", "alpha", "beta", "Eb">>,
     PLSuperExpCutoff |-> <<"Prefactor", "Index1", "Scale", "Cutoff", "Index2">>,
     PLSuperExpCutoff2 |-> <<"Prefactor", "Index1", "Scale", "Expfactor", "Index2">>,
     PLSuperExpCutoff4 |-> <<"Prefactor", "IndexS", "Scale", "ExpfactorS", "Index2">>]

(***************************************************************************)
(* The per-release normalizers.  A file is a record: its name, the header  *)
(* tags CDS-NAME and VERSION of its first table ("" when absent), and its  *)
(* tables in order, each with its HDU name.  A normalizer yields the set   *)
(* of entities it can build: the sorts inside it leave the order of rows   *)
(* of equal key open.                                                      *)
(***************************************************************************)
\* the renaming of superseded SpectrumType labels a normalizer does before
\* _fill_params: FL8Y and the user catalog do none
RelabelSpectrumType(class, t) ==
    CASE class \in {"Catalog3FGL", "Catalog4FGLP"} ->
           Relabel(t, "SpectrumType", "PLExpCutoff", "PLSuperExpCutoff")
      [] class \in {"Catalog4FGL", "Catalog4FGLDR2"} ->
           Relabel(t, "SpectrumType", "PLSuperExpCutoff", "PLSuperExpCutoff2")
      [] class \in {"Catalog4FGLDR3", "Catalog4FGLDR4"} ->
           Relabel(t, "SpectrumType", "PLSuperExpCutoff", "PLSuperExpCutoff4")
      [] OTHER -> t

\* Table.read(fitsfile, hdu=1)
ReadFirst(file) == file.hdus[1].table

HasHDU(file, name) == \E i \in DOMAIN file.hdus : file.hdus[i].name = name

\* Table.read(fitsfile, name)
ReadNamed(file, name) == file.hdus[CHOOSE i \in DOMAIN file.hdus : file.hdus[i].name = name].table

ExtendedColumns ==
    <<"Model_Form", "Model_SemiMajor", "Model_SemiMinor", "Model_PosAng",
      "Spatial_Filename", "Spatial_Function">>

\* if 'Spatial_Function' not in table_extsrc.colnames: add it, 'SpatialMap'
WithSpatialFunction(ext) ==
    IF HasColumn(ext, "Spatial_Function") THEN ext
    ELSE SetScalar(ext, "Spatial_Function", "U", S("SpatialMap"))

JoinHeap(l, r, cols) ==
    [left |-> l, right |-> r, cols |-> [none |-> FALSE, list |-> cols],
     rcopy |-> NoTable, clist |-> <<>>]

\* join_tables(table, table_extsrc, key_left, key_right, [...]): its outcomes
JoinOutcomes(table, ext, key_left, key_right) ==
    LET h == JoinHeap(table, ext, ExtendedColumns)
    IN IF HasColumn(table, key_left)
       THEN {join_tables(h, key_left, key_right, o) : o \in ArgSorts(Column(table, key_left))}
       ELSE {join_tables(h, key_left, key_right, <<>>)}

\* the rows left in the order the join gave them
SortOutcomesUnsorted(t, name) ==
    IF ~HasColumn(t, name) THEN {[status |-> "KeyError", table |-> t]}
    ELSE {[status |-> "ok", table |-> t]}

\* table.sort('Source_Name'): its outcomes
SortOutcomes(t, name) ==
    IF ~HasColumn(t, name) THEN {[status |-> "KeyError", table |-> t]}
    ELSE {[status |-> "ok", table |-> SortRows(t, o)] : o \in ArgSorts(Column(t, name))}

\* strip, synthesize Spatial_Function, join, sort by Source_Name
JoinedSorted(table, ext, key_left, key_right) ==
    UNION {IF j.status # "ok" THEN {[status |-> j.status, table |-> table]}
           ELSE SortOutcomes(j.table, "Source_Name") :
             j \in JoinOutcomes(strip_columns(table), WithSpatialFunction(strip_columns(ext)),
                                key_left, key_right)}

ExtDir(class) ==
    CASE class = "CatalogFPY" -> "Extended_archive_v18"
      [] class = "Catalog2FHL" -> "Extended_archive_2fhl_v00"
      [] class = "Catalog3FGL" -> "Extended_archive_v15"
      [] class = "Catalog4FGLP" -> "Extended_archive_v15"
      [] class = "Catalog4FGL" -> "Extended_8years"
      [] class = "CatalogFL8Y" -> "Extended_archive_v18"
      [] class = "Catalog4FGLDR2" -> "Extended_8years"
      [] class = "Catalog4FGLDR3" -> "Extended_12years"
      [] class = "Catalog4FGLDR4" -> "Extended_14years"

Raised(e, what) == [e EXCEPT !.status = what]

\* CatalogFPY.__init__
CatalogFPY(file, reg) ==
    LET class == "CatalogFPY"
        table == strip_columns(ReadFirst(file))
    IN IF ~HasColumn(table, "Spatial_Filename") THEN {Failed(class, "KeyError", table)}
       ELSE {Catalog_init(class, Relabel(table, "Spatial_Filename", "None", ""), ExtDir(class))}

\* PowerLaw.eval_norm(50E3, -Spectral_Index, 50E3, 2000E3, Flux50): the
\* normalization is fermipy.spectrum's
EvalNorm(index, flux) == <<"eval_norm", index, flux>>

\* the end of Catalog2FHL.__init__: Flux_Density, Pivot_Energy and
\* SpectrumType are set on every row, then _fill_params runs
Spectral2FHL(t, reg) ==
    IF ~HasColumn(t, "Spectral_Index") \/ ~HasColumn(t, "Flux50") THEN NoParams(t)
    ELSE LET t1 == SetColumn(t, "Flux_Density", "f",
                     [r \in DOMAIN t.rows |->
                         EvalNorm(Neg(Cell(t, r, "Spectral_Index")), Cell(t, r, "Flux50"))])
             t2 == SetScalar(t1, "Pivot_Energy", "f", Fin(50000))
             t3 == SetScalar(t2, "SpectrumType", "U", S("PowerLaw"))
         IN fill_params_2FHL(t3, reg)

\* Catalog2FHL.__init__
Catalog2FHL(file, reg) ==
    LET class == "Catalog2FHL"
        post(e) ==
            IF e.status # "ok" THEN e
            ELSE LET f == Spectral2FHL(e.table, reg)
                 IN [e EXCEPT !.status = f.status, !.table = f.table]
    IN IF ~HasHDU(file, "2FHL Source Catalog") \/ ~HasHDU(file, "Extended Sources")
       THEN {Failed(class, "KeyError", NoTable)}
       ELSE {IF j.status # "ok" THEN Failed(class, j.status, j.table)
             ELSE post(Catalog_init(class, j.table, ExtDir(class))) :
               j \in JoinedSorted(ReadNamed(file, "2FHL Source Catalog"),
                                  ReadNamed(file, "Extended Sources"), "Source_Name", "Source_Name")}

\* the per-band columns Catalog3FGL sums TS from
ts_keys ==
    <<"Sqrt_TS30_100", "Sqrt_TS100_300", "Sqrt_TS300_1000", "Sqrt_TS1000_3000",
      "Sqrt_TS3000_10000", "Sqrt_TS10000_100000">>

\* the sum without the np.isfinite mask
RECURSIVE SumBandsUnmasked(_, _, _)
SumBandsUnmasked(t, r, keys) ==
    IF keys = <<>> THEN Fin(0)
    ELSE LET rest == SumBandsUnmasked(t, r, SubSeq(keys, 1, Len(keys) - 1))
             k == keys[Len(keys)]
         IN IF HasColumn(t, k) THEN Add(rest, Mul(Cell(t, r, k), Cell(t, r, k))) ELSE rest

\* for k in ts_keys: skip an absent column; add the square where it is finite
RECURSIVE SumBands(_, _, _)
SumBands(t, r, keys) ==
    IF keys = <<>> THEN Fin(0)
    ELSE LET rest == SumBands(t, r, SubSeq(keys, 1, Len(keys) - 1))
             k == keys[Len(keys)]
         IN IF HasColumn(t, k) /\ IsFinite(Cell(t, r, k))
            THEN Add(rest, Mul(Cell(t, r, k), Cell(t, r, k)))
            ELSE rest

\* m = Spatial_Function == 'RadialGauss'; Spatial_Function[m] = 'RadialGaussian'
RenameRadialGauss(t) == Relabel(t, "Spatial_Function", "RadialGauss", "RadialGaussian")

\* Catalog3FGL: the Spatial_Function column replaced in place by a 'U20' one
SpatialFunctionInPlace(t) ==
    RenameRadialGauss(SetColumn(t, "Spatial_Function", "U", Column(t, "Spatial_Function")))

\* FL8Y and 4FGL: the column removed and a 'U20' one of its data added last
SpatialFunctionU20(t) ==
    RenameRadialGauss(SetColumn(RemoveColumn(t, "Spatial_Function"), "Spatial_Function", "U",
                                Column(t, "Spatial_Function")))

\* Catalog3FGL.__init__
Catalog3FGL(file, reg) ==
    LET class == "Catalog3FGL"
        drop(t) ==
            LET t1 == IF HasColumn(t, "Flux_History") THEN RemoveColumn(t, "Flux_History") ELSE t
            IN IF HasColumn(t1, "Unc_Flux_History") THEN RemoveColumn(t1, "Unc_Flux_History") ELSE t1
        post(e) ==
            IF e.status # "ok" THEN e ELSE
            LET t == e.table
            IN IF ~HasColumn(t, "SpectrumType") THEN Raised(e, "KeyError")
               ELSE LET t1 == RelabelSpectrumType(class, t)
                        t2 == SpatialFunctionInPlace(t1)
                        ts == [r \in DOMAIN t2.rows |-> SumBands(t2, r, ts_keys)]
                        t3 == SetColumn(SetColumn(t2, "TS_value", "f", ts), "TS", "f", ts)
                        f == fill_params_3FGL(t3, reg)
                    IN [e EXCEPT !.status = f.status, !.table = f.table]
    IN IF ~HasHDU(file, "LAT_Point_Source_Catalog") \/ ~HasHDU(file, "ExtendedSources")
       THEN {Failed(class, "KeyError", NoTable)}
       ELSE {IF j.status # "ok" THEN Failed(class, j.status, j.table)
             ELSE post(Catalog_init(class, j.table, ExtDir(class))) :
               j \in JoinedSorted(drop(ReadNamed(file, "LAT_Point_Source_Catalog")),
                                  ReadNamed(file, "ExtendedSources"),
                                  "Extended_Source_Name", "Source_Name")}

\* str.replace(' ', '') on the text values of the model
RemoveSpaces(x) == Strip(x)

\* Catalog4FGLP.__init__
Catalog4FGLP(file, reg) ==
    LET class == "Catalog4FGLP"
        t0 == strip_columns(ReadFirst(file))
        post(e) ==
            IF e.status # "ok" THEN e ELSE
            LET t == e.table
            IN IF ~HasColumn(t, "SpectrumType") THEN Raised(e, "KeyError")
               ELSE LET t1 == RelabelSpectrumType(class, t)
                    IN IF ~HasColumn(t1, "Test_Statistic") THEN [e EXCEPT !.status = "KeyError", !.table = t1]
                       ELSE LET t2 == SetColumn(t1, "TS", "f", Column(t1, "Test_Statistic"))
                            IN IF ~HasColumn(t2, "Cutoff_Energy")
                               THEN [e EXCEPT !.status = "KeyError", !.table = t2]
                               ELSE [e EXCEPT !.table =
                                        SetColumn(t2, "Cutoff", "f", Column(t2, "Cutoff_Energy"))]
    IN IF ~HasColumn(t0, "NickName") THEN {Failed(class, "KeyError", t0)}
       ELSE LET t1 == SetColumn(t0, "Source_Name", "U", Column(t0, "NickName"))
                t2 == IF HasColumn(t1, "Beta") THEN SetColumn(t1, "beta", "f", Column(t1, "Beta")) ELSE t1
            IN IF ~HasColumn(t2, "Extended") THEN {Failed(class, "KeyError", t2)}
               ELSE LET t3 == SetColumn(t2, "Spatial_Filename", "S",
                                [r \in DOMAIN t2.rows |->
                                    IF Cell(t2, r, "Extended") = B(TRUE)
                                    THEN S(RemoveSpaces(Text(Cell(t2, r, "Source_Name"))) \o ".fits")
                                    ELSE S("")])
                    IN {post(Catalog_init(class, t3, ExtDir(class)))}

\* the spectral steps that end a constructor: in 2FHL the columns set on
\* every row, elsewhere the relabeling (none in FL8Y, where a missing
\* SpectrumType is _fill_params's KeyError); then _fill_params
SpectralTail(class, t, reg) ==
    IF class = "Catalog2FHL" THEN Spectral2FHL(t, reg)
    ELSE IF ~HasColumn(t, "SpectrumType") THEN NoParams(t)
    ELSE fill_params(class, RelabelSpectrumType(class, t), reg)

\* the base rule kept: extended as the base constructor left it
ExcolBaseRule(t, r) == Cell(t, r, "extended")

\* excol[i] = len(exname.strip()) > 0
Excol(t, r) == B(Strip(Text(Cell(t, r, "Extended_Source_Name"))) # "")

\* CatalogFL8Y, Catalog4FGL, Catalog4FGLDR2, Catalog4FGLDR3, Catalog4FGLDR4:
\* the same __init__ but for the default file and directory, the relabeling
\* and the _fill_params
CatalogFGL8(class, file, reg) ==
    LET post(e) ==
            IF e.status # "ok" THEN e ELSE
            LET t == e.table
                excol == [r \in DOMAIN t.rows |-> Excol(t, r)]
                t1 == SetColumn(SetColumn(t, "extended", "b", excol), "Extended", "b", excol)
                t2 == SpatialFunctionU20(t1)
            IN IF ~HasColumn(t2, "Signif_Avg") THEN [e EXCEPT !.status = "KeyError", !.table = t2]
               ELSE LET t3 == SetColumn(t2, "TS", "f",
                                [r \in DOMAIN t2.rows |->
                                    Mul(Cell(t2, r, "Signif_Avg"), Cell(t2, r, "Signif_Avg"))])
                        f == SpectralTail(class, t3, reg)
                    IN [e EXCEPT !.status = f.status, !.table = f.table]
    IN IF ~HasHDU(file, "ExtendedSources")
       THEN {Failed(class, "KeyError", NoTable)}
       ELSE {IF j.status # "ok" THEN Failed(class, j.status, j.table)
             ELSE post(Catalog_init(class, j.table, ExtDir(class))) :
               j \in JoinedSorted(ReadFirst(file), ReadNamed(file, "ExtendedSources"),
                                  "Extended_Source_Name", "Source_Name")}

(***************************************************************************)
(* Catalog.create.  The argument is a name: its stem and its extension     *)
(* (os.path.splitext); a release token has no extension.                   *)
(***************************************************************************)
Unrecognized(what) == {Failed("none", what, NoTable)}

\* 'gll_psch_v08' in fitsfile
HasLegacyMarker(name) == name.stem = "gll_psch_v08"

\* a version of no known range taken for the first generation
VersionRangeGuessing(version) ==
    CASE version \in {"v23", "v24", "v25", "v26", "v27"} -> "4FGL-DR2"
      [] version \in {"v28", "v29", "v30", "v31"} -> "4FGL-DR3"
      [] version \in {"v32", "v33", "v34", "v35"} -> "4FGL-DR4"
      [] OTHER -> "4FGL"

VersionRange(version) ==
    CASE version \in {"v17", "v18", "v19", "v20", "v21", "v22"} -> "4FGL"
      [] version \in {"v23", "v24", "v25", "v26", "v27"} -> "4FGL-DR2"
      [] version \in {"v28", "v29", "v30", "v31"} -> "4FGL-DR3"
      [] version \in {"v32", "v33", "v34", "v35"} -> "4FGL-DR4"
      [] OTHER -> "none"

\* the last two branches of the path case: NickName, else the user catalog
ByNickName(tab) ==
    IF HasColumn(tab, "NickName") THEN "Catalog4FGLP" ELSE "CatalogFPY"

\* the token case with the user catalog for a token of no release
TokenClassFallback(token) ==
    CASE token = "3FGL" -> "Catalog3FGL"
      [] token = "2FHL" -> "Catalog2FHL"
      [] token = "FL8Y" -> "CatalogFL8Y"
      [] token = "4FGL" -> "Catalog4FGL"
      [] token = "4FGL-DR2" -> "Catalog4FGLDR2"
      [] token = "4FGL-DR3" -> "Catalog4FGLDR3"
      [] token = "4FGL-DR4" -> "Catalog4FGLDR4"
      [] OTHER -> "CatalogFPY"

\* the token case: the class of a release name, "none" when it is no release
TokenClass(token) ==
    IF token = "3FGL" THEN "Catalog3FGL"
    ELSE IF token = "2FHL" THEN "Catalog2FHL"
    ELSE IF token = "FL8Y" THEN "CatalogFL8Y"
    ELSE IF token = "4FGL" THEN "Catalog4FGL"
    ELSE IF token = "4FGL-DR2" THEN "Catalog4FGLDR2"
    ELSE IF token = "4FGL-DR3" THEN "Catalog4FGLDR3"
    ELSE IF token = "4FGL-DR4" THEN "Catalog4FGLDR4"
    ELSE "none"

\* the class Catalog.create constructs for a name, "none" when it raises
CreatedClass(name, file) ==
    IF name.ext \in {".fits", ".fit"}
    THEN LET tab == ReadFirst(file)
             cds == file.cds_name
             gen == VersionRange(file.version)
         IN IF cds = "3FGL" THEN "Catalog3FGL"
            ELSE IF cds = "FL8Y" THEN "CatalogFL8Y"
            ELSE IF cds = "4FGL" THEN
                (IF gen = "4FGL" THEN
                     (IF HasColumn(tab, "PLEC_Index") THEN "Catalog4FGL" ELSE ByNickName(tab))
                 ELSE IF gen = "4FGL-DR2" THEN
                     (IF HasColumn(tab, "PLEC_Index") THEN "Catalog4FGLDR2" ELSE ByNickName(tab))
                 ELSE IF gen = "4FGL-DR3" THEN
                     (IF HasColumn(tab, "PLEC_IndexS") THEN "Catalog4FGLDR3" ELSE ByNickName(tab))
                 ELSE IF gen = "4FGL-DR4" THEN
                     (IF HasColumn(tab, "PLEC_IndexS") THEN "Catalog4FGLDR4" ELSE ByNickName(tab))
                 ELSE "none")
            ELSE IF HasLegacyMarker(name) THEN "Catalog2FHL"
            ELSE ByNickName(tab)
    ELSE TokenClass(name.stem)

\* the exception of Catalog.create itself
CreateError(name) ==
    IF name.ext \in {".fits", ".fit"}
    THEN "Error - 4FGL catalog fits file version not recognised."
    ELSE "Unrecognized catalog"

NoFile == [stem |-> "", ext |-> ""]

\* the bundled file a class reads when it is given no path
DefaultFile(class) ==
    CASE class = "Catalog2FHL" -> [stem |-> "gll_psch_v08", ext |-> ".fit"]
      [] class = "Catalog3FGL" -> [stem |-> "gll_psc_v16", ext |-> ".fit"]
      [] class = "Catalog4FGL" -> [stem |-> "gll_psc_v20", ext |-> ".fit"]
      [] class = "CatalogFL8Y" -> [stem |-> "gll_psc_8year_v5", ext |-> ".fit"]
      [] class = "Catalog4FGLDR2" -> [stem |-> "gll_psc_v27", ext |-> ".fit"]
      [] class = "Catalog4FGLDR3" -> [stem |-> "gll_psc_v29", ext |-> ".fit"]
      [] class = "Catalog4FGLDR4" -> [stem |-> "gll_psc_v35", ext |-> ".fit"]
      [] OTHER -> NoFile

\* the file a call of Catalog.create opens: the path it is given, the
\* bundled file of the class of a token, none for a token of no release
OpenedFile(name, file) ==
    IF name.ext \in {".fits", ".fit"} THEN name ELSE DefaultFile(CreatedClass(name, file))

FGL8Classes ==
    {"CatalogFL8Y", "Catalog4FGL", "Catalog4FGLDR2", "Catalog4FGLDR3", "Catalog4FGLDR4"}

\* cls(fitsfile): the constructor of a class on a file
Construct(class, file, reg) ==
    CASE class = "CatalogFPY" -> CatalogFPY(file, reg)
      [] class = "Catalog2FHL" -> Catalog2FHL(file, reg)
      [] class = "Catalog3FGL" -> Catalog3FGL(file, reg)
      [] class = "Catalog4FGLP" -> Catalog4FGLP(file, reg)
      [] class \in FGL8Classes -> CatalogFGL8(class, file, reg)

\* Catalog.create(name)
create(name, file, reg) ==
    IF CreatedClass(name, file) = "none" THEN Unrecognized(CreateError(name))
    ELSE Construct(CreatedClass(name, file), file, reg)

(***************************************************************************)
(* Catalog files.  A source is a record of the values its row carries; a   *)
(* table is built from a list of column names and a list of sources.       *)
(***************************************************************************)
TextColumns ==
    {"Source_Name", "NickName", "Extended_Source_Name", "SpectrumType",
     "Spatial_Filename", "Spatial_Function", "Model_Form"}

KindFor(col) ==
    IF col \in TextColumns THEN "U" ELSE IF col = "Extended" THEN "b" ELSE "f"

CellFor(col, src) ==
    CASE col \in {"Source_Name", "NickName"} -> S(src.name)
      [] col = "Extended_Source_Name" -> S(src.esn)
      [] col = "SpectrumType" -> S(src.stype)
      [] col = "Spatial_Filename" -> S(src.sfile)
      [] col = "Spatial_Function" -> S(src.sfunc)
      [] col = "Model_Form" -> S("Disk")
      [] col = "Extended" -> B(src.extd)
      [] col = "RAJ2000" -> Fin(10 * Rank(S(src.name)))
      [] col = "DEJ2000" -> Fin(-Rank(S(src.name)))
      [] col \in {"Flux_Density", "PLEC_Flux_Density"} -> src.flux
      [] col = "PL_Flux_Density" -> Fin(11)
      [] col = "LP_Flux_Density" -> Fin(13)
      [] col = "Flux50" -> Fin(17)
      [] col = "Pivot_Energy" -> src.pivot
      [] col \in {"Spectral_Index", "PL_Index"} -> src.index
      [] col \in {"PLEC_Index", "PLEC_IndexS"} -> Fin(4)
      [] col = "LP_Index" -> Fin(5)
      [] col \in {"beta", "LP_beta", "Beta"} -> Fin(6)
      [] col \in {"Cutoff", "Cutoff_Energy", "PLEC_Expfactor", "PLEC_ExpfactorS"} -> src.cut
      [] col \in {"Exp_Index", "PLEC_Exp_Index"} -> src.eidx
      [] col = "Sqrt_TS30_100" -> NaN
      [] col = "Sqrt_TS100_300" -> Fin(2)
      [] col = "Signif_Avg" -> Fin(3)
      [] col = "Test_Statistic" -> Fin(25)
      [] OTHER -> Fin(1)

MakeTable(cols, srcs) ==
    [names |-> cols,
     kinds |-> [c \in DOMAIN cols |-> KindFor(cols[c])],
     rows |-> [i \in DOMAIN srcs |-> [c \in DOMAIN cols |-> CellFor(cols[c], srcs[i])]]]

Source(name, esn, stype, sfile, sfunc, extd) ==
    [name |-> name, esn |-> esn, stype |-> stype, sfile |-> sfile, sfunc |-> sfunc,
     extd |-> extd, flux |-> Fin(3), index |-> Fin(2), pivot |-> Fin(1000),
     cut |-> Fin(1), eidx |-> Fin(1)]

Flavours == {"3FGL", "FL8Y", "4FGL", "4FGL-DR3", "2FHL", "4FGLP", "FPY"}

Positional == <<"Source_Name", "RAJ2000", "DEJ2000">>

\* the columns of the first table of a file of each flavour
PrimaryColumns(flavour) ==
    CASE flavour = "3FGL" ->
           Positional \o <<"Extended_Source_Name", "SpectrumType", "Flux_Density",
                           "Spectral_Index", "Pivot_Energy", "Cutoff", "Exp_Index", "beta",
                           "Sqrt_TS30_100", "Sqrt_TS100_300", "Flux_History">>
      [] flavour = "FL8Y" ->
           Positional \o <<"Extended_Source_Name", "SpectrumType", "Signif_Avg", "Pivot_Energy",
                           "Flux_Density", "PL_Index", "PLEC_Index", "PLEC_Expfactor",
                           "PLEC_Exp_Index", "LP_Index", "LP_beta">>
      [] flavour = "4FGL" ->
           Positional \o <<"Extended_Source_Name", "SpectrumType", "Signif_Avg", "Pivot_Energy",
                           "PL_Flux_Density", "PL_Index", "PLEC_Flux_Density", "PLEC_Index",
                           "PLEC_Expfactor", "PLEC_Exp_Index", "LP_Flux_Density", "LP_Index",
                           "LP_beta">>
      [] flavour = "4FGL-DR3" ->
           Positional \o <<"Extended_Source_Name", "SpectrumType", "Signif_Avg", "Pivot_Energy",
                           "PL_Flux_Density", "PL_Index", "PLEC_Flux_Density", "PLEC_IndexS",
                           "PLEC_ExpfactorS", "PLEC_Exp_Index", "LP_Flux_Density", "LP_Index",
                           "LP_beta">>
      [] flavour = "2FHL" -> Positional \o <<"Spectral_Index", "Flux50">>
      [] flavour = "4FGLP" ->
           <<"NickName", "RAJ2000", "DEJ2000", "Extended", "SpectrumType", "Beta",
             "Test_Statistic", "Cutoff_Energy">>
      [] flavour = "FPY" -> Positional \o <<"SpectrumType", "Spatial_Filename">>

\* the HDU names of the first and of the extended-source table
HduNames(flavour) ==
    CASE flavour = "2FHL" -> <<"2FHL Source Catalog", "Extended Sources">>
      [] flavour \in {"4FGLP", "FPY"} -> <<"CATALOG">>
      [] OTHER -> <<"LAT_Point_Source_Catalog", "ExtendedSources">>

\* the spectral type a source of a given name carries in a file of a flavour
TypeOf(flavour, name) ==
    IF name = "A" THEN "PowerLaw"
    ELSE IF flavour \in {"3FGL", "4FGLP"} THEN "PLExpCutoff"
    ELSE IF flavour = "FPY" THEN "LogParabola"
    ELSE "PLSuperExpCutoff"

\* the sources a row of the first table can be
Sources(flavour) ==
    CASE flavour \in {"3FGL", "FL8Y", "4FGL", "4FGL-DR3"} ->
           {Source(n, x, TypeOf(flavour, n), "", "", FALSE) : n \in {"A", "B"}, x \in {"", "A", "C"}}
      [] flavour = "2FHL" ->
           {Source(n, "", "", "", "", FALSE) : n \in {"A", "B", "C"}}
      [] flavour = "4FGLP" ->
           {Source(n, "", TypeOf(flavour, n), "", "", b) : n \in {"A", "B"}, b \in BOOLEAN}
      [] flavour = "FPY" ->
           {Source(n, "", TypeOf(flavour, n), f, g, FALSE) :
              n \in {"A", "B"}, f \in {"", "None", "A.fits"}, g \in {"", "RadialDisk"}}

ExtendedTableColumns ==
    <<"Source_Name", "RAJ2000", "DEJ2000", "Model_Form", "Model_SemiMajor",
      "Model_SemiMinor", "Model_PosAng", "Spatial_Filename">>

ExtA == Source("A", "", "", "A.fits", "RadialGauss", FALSE)

ExtC == Source("C", "", "", "", "RadialDisk", FALSE)

\* the extended-source tables: with and without a Spatial_Function column
ExtendedTables ==
    {MakeTable(ExtendedTableColumns \o <<"Spatial_Function">>, <<>>),
     MakeTable(ExtendedTableColumns, <<ExtA>>),
     MakeTable(ExtendedTableColumns \o <<"Spatial_Function">>, <<ExtA>>),
     MakeTable(ExtendedTableColumns \o <<"Spatial_Function">>, <<ExtC, ExtA>>)}

\* the columns a file of a flavour may come without
Droppable(flavour) ==
    {"RAJ2000", "DEJ2000"} \cup
    (CASE flavour = "3FGL" -> {"beta", "Cutoff", "Sqrt_TS30_100"}
       [] flavour = "4FGL" -> {"LP_beta"}
       [] flavour = "4FGLP" -> {"Beta", "Cutoff_Energy", "Test_Statistic"}
       [] OTHER -> {})

\* a table whose SpectrumType column is 16 characters wide
Narrow(t) ==
    IF HasColumn(t, "SpectrumType")
    THEN [t EXCEPT !.kinds[IndexOf(t.names, "SpectrumType")] = "U16"]
    ELSE t

\* one-row first tables: with a column missing, with a narrow SpectrumType
VariantTables(flavour) ==
    LET whole == {MakeTable(PrimaryColumns(flavour), srcs) :
                    srcs \in SeqsUpTo(Sources(flavour), 1) \ {<<>>}}
    IN {RemoveColumn(t, c) : t \in whole, c \in Droppable(flavour)}
       \cup {Narrow(t) : t \in whole}

\* the first tables of the files of a flavour: a user catalog may carry a
\* Spatial_Function column of its own
PrimaryTables(flavour) ==
    {MakeTable(PrimaryColumns(flavour), srcs) :
       srcs \in SeqsUpTo(Sources(flavour), MaxRows) \ {<<>>}}
    \cup VariantTables(flavour)
    \cup (IF flavour # "FPY" THEN {}
          ELSE {MakeTable(PrimaryColumns(flavour) \o <<"Spatial_Function">>, srcs) :
                  srcs \in SeqsUpTo(Sources(flavour), 1) \ {<<>>}})

\* the file names and header tags (CDS-NAME, VERSION) files of a flavour carry
Headers(flavour) ==
    CASE flavour = "3FGL" -> {<<"gll_psc_v16", "3FGL", "">>}
      [] flavour = "FL8Y" -> {<<"gll_psc_8year_v5", "FL8Y", "">>}
      [] flavour = "4FGL" -> {<<"gll_psc_v20", "4FGL", "v20">>, <<"gll_psc_v27", "4FGL", "v27">>,
                              <<"gll_psc_v30", "4FGL", "v30">>, <<"gll_psc_v99", "4FGL", "v99">>,
                              <<"gll_psc", "4FGL", "">>}
      [] flavour = "4FGL-DR3" -> {<<"gll_psc_v30", "4FGL", "v30">>, <<"gll_psc_v33", "4FGL", "v33">>}
      [] flavour = "2FHL" -> {<<"gll_psch_v08", "", "">>, <<"gll_psch_v08", "4FGL", "v20">>,
                              <<"gll_psch_v08", "3FGL", "">>}
      [] flavour = "4FGLP" -> {<<"gll_psc8year_v3", "", "">>, <<"gll_psc8year_v3", "4FGL", "v20">>}
      [] flavour = "FPY" -> {<<"user", "", "">>}

CatalogFile(flavour, header, primary, ext) ==
    [filename |-> [stem |-> header[1], ext |-> ".fit"],
     cds_name |-> header[2],
     version |-> header[3],
     hdus |-> IF Len(HduNames(flavour)) = 1
              THEN <<[name |-> HduNames(flavour)[1], table |-> primary]>>
              ELSE <<[name |-> HduNames(flavour)[1], table |-> primary],
                     [name |-> HduNames(flavour)[2], table |-> ext]>>]

CatalogFiles ==
    UNION {{CatalogFile(fl, h, p, x) :
              h \in Headers(fl), p \in PrimaryTables(fl),
              x \in (IF Len(HduNames(fl)) = 1 THEN {NoTable} ELSE ExtendedTables)} :
           fl \in Flavours}

Tokens == {"3FGL", "2FHL", "FL8Y", "4FGL", "4FGL-DR2", "4FGL-DR3", "4FGL-DR4", "5FGL"}

\* the variables of the constructors and of _fill_params in a run without them
NoCatalog ==
    /\ registry = CanonicalRegistry
    /\ cfile = [filename |-> [stem |-> "", ext |-> ""], cds_name |-> "", version |-> "", hdus |-> <<>>]
    /\ ccall = [op |-> "none"]
    /\ cat = Failed("none", "none", NoTable)

NoFill ==
    /\ fin = [class |-> "none", table |-> NoTable]
    /\ fout = [status |-> "none", table |-> NoTable]

(***************************************************************************)
(* The constructors as a state machine: a file is on disk; one call is     *)
(* made, to the base constructor with the file's first table, or to        *)
(* Catalog.create with the file's path or with a release token (the file   *)
(* then stands for the bundled default of the class).                      *)
(***************************************************************************)
InitCatalog ==
    /\ registry = CanonicalRegistry
    /\ cfile \in CatalogFiles
    /\ ccall = [op |-> "none"]
    /\ cat = Failed("none", "none", NoTable)
    /\ jpc = "off"
    /\ jargs = [key_left |-> "", key_right |-> ""]
    /\ jheap = JoinHeap(NoTable, NoTable, <<>>)
    /\ jout = [status |-> "none", table |-> NoTable, before |-> jheap]
    /\ NoFill

\* Catalog(table, extdir)
NewCatalog ==
    /\ ccall.op = "none"
    /\ \E extdir \in {"", "dir"} :
         /\ ccall' = [op |-> "Catalog", extdir |-> extdir]
         /\ cat' = Catalog_init("Catalog", ReadFirst(cfile), extdir)
    /\ UNCHANGED <<registry, cfile, jpc, jargs, jheap, jout, fin, fout>>

\* Catalog.create(path of the file)
CreateFromPath ==
    /\ ccall.op = "none"
    /\ ccall' = [op |-> "create", name |-> cfile.filename,
                 fitsfile |-> OpenedFile(cfile.filename, cfile)]
    /\ cat' \in create(cfile.filename, cfile, registry)
    /\ UNCHANGED <<registry, cfile, jpc, jargs, jheap, jout, fin, fout>>

\* Catalog.create(token)
CreateFromToken ==
    /\ ccall.op = "none"
    /\ \E token \in Tokens :
         /\ ccall' = [op |-> "create", name |-> [stem |-> token, ext |-> ""],
                      fitsfile |-> OpenedFile([stem |-> token, ext |-> ""], cfile)]
         /\ cat' \in create([stem |-> token, ext |-> ""], cfile, registry)
    /\ UNCHANGED <<registry, cfile, jpc, jargs, jheap, jout, fin, fout>>

NextCatalog == NewCatalog \/ CreateFromPath \/ CreateFromToken

SpecCatalog == InitCatalog /\ [][NextCatalog]_vars

(***************************************************************************)
(* _fill_params as a state machine: a table is at the point where the      *)
(* spectral steps of a constructor start; one call runs them.  The rows    *)
(* carry every SpectrumType label and numbers chosen for the corners of    *)
(* the arithmetic: a zero flux with an overflowing exponential, a zero     *)
(* pivot over a zero cutoff, a zero exponent, and an exponential that      *)
(* stays finite.                                                           *)
(***************************************************************************)
FillingClasses ==
    {"Catalog2FHL", "Catalog3FGL", "CatalogFL8Y", "Catalog4FGL", "Catalog4FGLDR2",
     "Catalog4FGLDR3", "Catalog4FGLDR4"}

\* the file flavour a class reads
FlavourOf(class) ==
    CASE class = "Catalog2FHL" -> "2FHL"
      [] class = "Catalog3FGL" -> "3FGL"
      [] class = "CatalogFL8Y" -> "FL8Y"
      [] class \in {"Catalog4FGL", "Catalog4FGLDR2"} -> "4FGL"
      [] class \in {"Catalog4FGLDR3", "Catalog4FGLDR4"} -> "4FGL-DR3"

SpectrumTypes ==
    {"PowerLaw", "LogParabola", "PLExpCutoff", "PLSuperExpCutoff", "PLSuperExpCutoff2",
     "PLSuperExpCutoff4", "Other"}

\* flux, index, pivot, cutoff or exponential factor, exponent
Profiles ==
    {<<Fin(3), Fin(2), Fin(1000), Fin(1), Fin(1)>>,
     <<Fin(0), Fin(2), Fin(1000), Fin(1000), Fin(1)>>,
     <<Fin(3), Fin(0), Fin(0), Fin(0), Fin(1)>>,
     <<Fin(3), Fin(2), Fin(1000), Fin(0), Fin(0)>>,
     <<Fin(3), Fin(2), Fin(10), Fin(2), Fin(2)>>}

FillSource(stype, p) ==
    [Source("A", "", stype, "", "", FALSE) EXCEPT
        !.flux = p[1], !.index = p[2], !.pivot = p[3], !.cut = p[4], !.eidx = p[5]]

FillSources(class) ==
    {FillSource(ty, p) : ty \in (IF class = "Catalog2FHL" THEN {""} ELSE SpectrumTypes),
                         p \in Profiles}

FillTables(class) ==
    {MakeTable(PrimaryColumns(FlavourOf(class)), srcs) :
       srcs \in SeqsUpTo(FillSources(class), MaxFillRows) \ {<<>>}}

InitFill ==
    /\ registry = CanonicalRegistry
    /\ \E class \in FillingClasses : \E t \in FillTables(class) : fin = [class |-> class, table |-> t]
    /\ fout = [status |-> "none", table |-> NoTable]
    /\ cfile = [filename |-> [stem |-> "", ext |-> ""], cds_name |-> "", version |-> "", hdus |-> <<>>]
    /\ ccall = [op |-> "none"]
    /\ cat = Failed("none", "none", NoTable)
    /\ jpc = "off"
    /\ jargs = [key_left |-> "", key_right |-> ""]
    /\ jheap = JoinHeap(NoTable, NoTable, <<>>)
    /\ jout = [status |-> "none", table |-> NoTable, before |-> jheap]

\* the spectral steps of the constructor of class, _fill_params last
FillParams(class) ==
    /\ fout.status = "none"
    /\ fout' = SpectralTail(class, fin.table, registry)
    /\ UNCHANGED <<fin, registry, cfile, ccall, cat, jpc, jargs, jheap, jout>>

FillParams2FHL == fin.class = "Catalog2FHL" /\ FillParams("Catalog2FHL")

FillParams3FGL == fin.class = "Catalog3FGL" /\ FillParams("Catalog3FGL")

FillParamsFL8Y == fin.class = "CatalogFL8Y" /\ FillParams("CatalogFL8Y")

FillParams4FGL == fin.class = "Catalog4FGL" /\ FillParams("Catalog4FGL")

FillParams4FGLDR2 == fin.class = "Catalog4FGLDR2" /\ FillParams("Catalog4FGLDR2")

FillParams4FGLDR3 == fin.class = "Catalog4FGLDR3" /\ FillParams("Catalog4FGLDR3")

FillParams4FGLDR4 == fin.class = "Catalog4FGLDR4" /\ FillParams("Catalog4FGLDR4")

NextFill ==
    \/ FillParams2FHL
    \/ FillParams3FGL
    \/ FillParamsFL8Y
    \/ FillParams4FGL
    \/ FillParams4FGLDR2
    \/ FillParams4FGLDR3
    \/ FillParams4FGLDR4

SpecFill == InitFill /\ [][NextFill]_vars

(***************************************************************************)
(* _fill_params under a Parameter Registry that lists the names of a       *)
(* family in another order: the canonical order, that order reversed, and  *)
(* that order rotated by one.                                              *)
(***************************************************************************)
Reversed(s) == [i \in DOMAIN s |-> s[Len(s) + 1 - i]]

Rotated(s) == [i \in DOMAIN s |-> s[(i % Len(s)) + 1]]

Registries ==
    {CanonicalRegistry,
     [fn \in DOMAIN CanonicalRegistry |-> Reversed(CanonicalRegistry[fn])],
     [fn \in DOMAIN CanonicalRegistry |-> Rotated(CanonicalRegistry[fn])]}

RegistryTables(class) ==
    {MakeTable(PrimaryColumns(FlavourOf(class)), srcs) :
       srcs \in SeqsUpTo(FillSources(class), MaxRegistryRows) \ {<<>>}}

InitRegistry ==
    /\ registry \in Registries
    /\ \E class \in FillingClasses : \E t \in RegistryTables(class) : fin = [class |-> class, table |-> t]
    /\ fout = [status |-> "none", table |-> NoTable]
    /\ cfile = [filename |-> [stem |-> "", ext |-> ""], cds_name |-> "", version |-> "", hdus |-> <<>>]
    /\ ccall = [op |-> "none"]
    /\ cat = Failed("none", "none", NoTable)
    /\ jpc = "off"
    /\ jargs = [key_left |-> "", key_right |-> ""]
    /\ jheap = JoinHeap(NoTable, NoTable, <<>>)
    /\ jout = [status |-> "none", table |-> NoTable, before |-> jheap]

SpecRegistry == InitRegistry /\ [][NextFill]_vars

(***************************************************************************)
(* The inputs of join_tables                                               *)
(***************************************************************************)
KeyNames == {<<"Source_Name", "Source_Name">>, <<"Extended_Source_Name", "Source_Name">>}

\* the i-th row of left: its key and its own identity
LeftTables(key_left) ==
    {[names |-> <<key_left, "lid">>,
      kinds |-> <<"U", "i">>,
      rows  |-> [i \in DOMAIN ks |-> <<S(ks[i]), I(i)>>]] : ks \in SeqsUpTo(KeyVals, MaxLeft)}

\* the columns of right after its key: a text, a signed, an unsigned and a
\* floating-point column, or some of them
RightLayouts ==
    {<<>>,
     <<"Model_Form", "Model_SemiMajor">>,
     <<"Model_Form", "Npix", "Model_SemiMajor">>,
     <<"Model_Form", "Npix", "Flags", "Model_SemiMajor">>}

RightKind(name) ==
    CASE name = "Model_Form" -> "U"
      [] name = "Npix" -> "i"
      [] name = "Flags" -> "u"
      [] name = "Model_SemiMajor" -> "f"
      [] OTHER -> "U"

\* the cell of row j of right in a column: a value that names the row
RightCell(name, j) ==
    CASE RightKind(name) = "U" -> S("t" \o ToString(j))
      [] RightKind(name) = "f" -> Fin(j)
      [] RightKind(name) = "u" -> U(j)
      [] OTHER -> I(j)

RightTables(key_right) ==
    {[names |-> <<key_right>> \o lay,
      kinds |-> <<"U">> \o [c \in DOMAIN lay |-> RightKind(lay[c])],
      rows  |-> [j \in DOMAIN ks |-> <<S(ks[j])>> \o [c \in DOMAIN lay |-> RightCell(lay[c], j)]]] :
        ks \in SeqsUpTo(KeyVals, MaxRight), lay \in RightLayouts}

ColsArgs(key_right) ==
    {[none |-> TRUE, list |-> <<>>],
     [none |-> FALSE, list |-> <<>>],
     [none |-> FALSE, list |-> <<"Model_Form", "Model_SemiMajor", "Spatial_Filename">>],
     [none |-> FALSE, list |-> <<"Npix", "Flags">>],
     [none |-> FALSE, list |-> <<key_right, "Model_Form">>]}

InitJoin ==
    /\ jpc = "call"
    /\ \E k \in KeyNames :
         /\ jargs = [key_left |-> k[1], key_right |-> k[2]]
         /\ \E l \in LeftTables(k[1]), r \in RightTables(k[2]), c \in ColsArgs(k[2]) :
              jheap = [left |-> l, right |-> r, cols |-> c, rcopy |-> NoTable, clist |-> <<>>]
    /\ jout = [status |-> "none", table |-> NoTable, before |-> jheap]
    /\ NoCatalog
    /\ NoFill

JoinTables ==
    /\ jpc = "call"
    /\ \E order \in ArgSorts(Column(jheap["left"], jargs.key_left)) :
         LET r == join_tables(jheap, jargs.key_left, jargs.key_right, order)
         IN /\ jheap' = r.heap
            /\ jout' = [status |-> r.status, table |-> r.table, before |-> jheap]
    /\ jpc' = "done"
    /\ UNCHANGED <<jargs, registry, cfile, ccall, cat, fin, fout>>

NextJoin == JoinTables

SpecJoin == InitJoin /\ [][NextJoin]_vars

(***************************************************************************)
(* Claims about join_tables                                                *)
(***************************************************************************)
Returned == jpc = "done" /\ jout.status = "ok"

LeftBefore == jout.before["left"]

RightBefore == jout.before["right"]

RightKeysUnique ==
    LET ks == Column(RightBefore, jargs.key_right)
    IN \A i, j \in DOMAIN ks : ks[i] = ks[j] => i = j

LeftWidth == Len(LeftBefore.names)

LeftPart(row) == SubSeq(row, 1, LeftWidth)

Matched(key) == S(key) \in Range(Column(RightBefore, jargs.key_right))

\* C1 as stated: with unique keys in right, the table returned has as many
\* rows as left and its i-th row is the i-th row of left.
C1_RowOrderIsLeftOrder ==
    (Returned /\ RightKeysUnique) =>
        /\ Len(jout.table.rows) = Len(LeftBefore.rows)
        /\ \A i \in DOMAIN jout.table.rows : LeftPart(jout.table.rows[i]) = LeftBefore.rows[i]

\* C1 amended: with unique keys in right, the table returned has as many rows
\* as left, its rows are the rows of left, each once, and they stand in
\* ascending order of the join key (not in the order of left).
C1_RowsAreLeftRowsInKeyOrder ==
    (Returned /\ RightKeysUnique) =>
        LET L == LeftBefore.rows
            O == jout.table.rows
        IN /\ Len(O) = Len(L)
           /\ \E p \in Perms(Len(L)) : \A i \in DOMAIN O : LeftPart(O[i]) = L[p[i]]
           /\ \A i, j \in DOMAIN O : i < j => Rank(O[i][1]) <= Rank(O[j][1])

\* C1 witness: a join returned for a left table whose keys descend, with an
\* unmatched row and a matched row, so the output order differs from left's.
C1_Witness ==
    /\ Returned /\ RightKeysUnique
    /\ Len(LeftBefore.rows) = 3
    /\ LeftBefore.rows[1][1] = S("B") /\ LeftBefore.rows[2][1] = S("") /\ LeftBefore.rows[3][1] = S("A")
    /\ Matched("B") /\ ~Matched("A")
    /\ LeftPart(jout.table.rows[1]) = LeftBefore.rows[2]

\* C2 as stated: the join returns, and every left row that matches no right
\* row carries in every right-sourced column the fill value of the column's
\* type: "" for text, 0 for signed and unsigned integers, NaN for floats;
\* matched rows carry the right row's values.
ClaimedFill(kind) ==
    IF kind \in {"S", "U"} THEN S("") ELSE IF kind = "i" THEN I(0) ELSE IF kind = "u" THEN U(0) ELSE NaN

C2_UnmatchedRowsCarryFill ==
    (jpc = "done" /\ jout.status # "KeyError" /\ RightKeysUnique) =>
        /\ jout.status = "ok"
        /\ \A r \in DOMAIN jout.table.rows : \A c \in (LeftWidth + 1)..Len(jout.table.names) :
              LET key == Text(jout.table.rows[r][1])
                  name == jout.table.names[c]
              IN IF Matched(key)
                 THEN \E j \in DOMAIN RightBefore.rows :
                        /\ RightBefore.rows[j][1] = S(key)
                        /\ jout.table.rows[r][c] = RightBefore.rows[j][IndexOf(RightBefore.names, name)]
                 ELSE jout.table.rows[r][c] = ClaimedFill(jout.table.kinds[c])

\* C3: join_tables leaves left, the caller's right and the caller's
\* cols_right as they were, whether it returns or raises.
C3_ArgumentsUnchanged ==
    jpc = "done" =>
        /\ jheap["left"] = jout.before["left"]
        /\ jheap["right"] = jout.before["right"]
        /\ jheap["cols"] = jout.before["cols"]

\* C3 witness: a call with different key names and a column list returned:
\* the key column was renamed and key_left appended, both on private objects.
C3_Witness ==
    /\ Returned
    /\ jargs.key_left # jargs.key_right
    /\ ~jheap["cols"].none
    /\ jargs.key_left \in Range(jheap["rcopy"].names)
    /\ jargs.key_left \notin Range(jheap["right"].names)
    /\ Len(jheap["clist"]) = Len(jheap["cols"].list)
    /\ Len(jout.table.rows) > 0

\* C4 as stated: with cols_right omitted the call succeeds, whatever the two
\* key names, and the result holds the key and every other column of right.
C4_OmittedColsKeepsAllColumns ==
    (jpc = "done" /\ jout.before["cols"].none /\ jout.status # "TypeError") =>
        /\ jout.status = "ok"
        /\ jargs.key_left \in Range(jout.table.names)
        /\ Range(RightBefore.names) \ {jargs.key_right} \subseteq Range(jout.table.names)

(***************************************************************************)
(* Claims about the entities the constructors build (SpecCatalog)          *)
(***************************************************************************)
Built == ccall.op # "none" /\ cat.status = "ok"

\* the table the base constructor was called with
TableBefore == ReadFirst(cfile)

Filename(r) == Cell(cat.table, r, "Spatial_Filename")

Function(r) == Cell(cat.table, r, "Spatial_Function")

IsExtended(r) == Cell(cat.table, r, "extended")

CrossReference(r) == Cell(cat.table, r, "Extended_Source_Name")

\* C5: after the base constructor ran on a table with RAJ2000 and DEJ2000,
\* the table has Spatial_Filename and Spatial_Function, one entry per row
\* and empty where the column was absent; extended is true exactly on the
\* rows where one of the two is not empty; extdir is the directory given.
C5_BaseConstructorColumns ==
    (ccall.op = "Catalog" /\ HasColumn(TableBefore, "RAJ2000") /\ HasColumn(TableBefore, "DEJ2000"))
    => /\ cat.status = "ok"
       /\ HasColumn(cat.table, "Spatial_Filename")
       /\ HasColumn(cat.table, "Spatial_Function")
       /\ Len(cat.table.rows) = Len(TableBefore.rows)
       /\ \A c \in {"Spatial_Filename", "Spatial_Function"} :
            IF HasColumn(TableBefore, c)
            THEN Column(cat.table, c) = Column(TableBefore, c)
            ELSE \A r \in DOMAIN cat.table.rows : Cell(cat.table, r, c) = S("")
       /\ \A r \in DOMAIN cat.table.rows :
            /\ Len(cat.table.rows[r]) = Len(cat.table.names)
            /\ IsExtended(r) = B(Filename(r) # S("") \/ Function(r) # S(""))
            /\ Cell(cat.table, r, "extdir") = S(ccall.extdir)

\* the base constructor made the absent Spatial_Function column, and found
\* one row extended by its file name alone and another not extended
C5_Witness ==
    /\ ccall.op = "Catalog"
    /\ ccall.extdir = "dir"
    /\ cat.status = "ok"
    /\ ~HasColumn(TableBefore, "Spatial_Function")
    /\ \E r \in DOMAIN cat.table.rows :
         Filename(r) # S("") /\ Function(r) = S("") /\ IsExtended(r) = B(TRUE)
    /\ \E r \in DOMAIN cat.table.rows :
         Filename(r) = S("") /\ Function(r) = S("") /\ IsExtended(r) = B(FALSE)

\* C6 as stated: in every entity handed to a caller every row has either
\* both Spatial_Filename and Spatial_Function empty and extended false, or
\* both non-empty and extended true.
C6_TwoShapesOnly ==
    Built => \A r \in DOMAIN cat.table.rows :
                \/ Filename(r) = S("") /\ Function(r) = S("") /\ IsExtended(r) = B(FALSE)
                \/ Filename(r) # S("") /\ Function(r) # S("") /\ IsExtended(r) = B(TRUE)

\* the classes whose extended column is the base constructor's
BaseRuleClasses == {"Catalog", "CatalogFPY", "Catalog4FGLP", "Catalog2FHL", "Catalog3FGL"}

\* C6 amended: in an entity of the base constructor, the user-catalog, the
\* preliminary-4FGL, the 2FHL or the 3FGL normalizer, extended is true
\* exactly on the rows where Spatial_Filename or Spatial_Function is not
\* empty (one of the two alone suffices); in an entity of the FL8Y and 4FGL
\* normalizers extended is true exactly on the rows with a non-empty
\* Extended_Source_Name, and a row with an empty one has both columns empty.
C6_ExtendedFollowsTheRuleOfItsClass ==
    Built => \A r \in DOMAIN cat.table.rows :
                IF cat.class \in BaseRuleClasses
                THEN IsExtended(r) = B(Filename(r) # S("") \/ Function(r) # S(""))
                ELSE /\ IsExtended(r) = B(CrossReference(r) # S(""))
                     /\ CrossReference(r) = S("") => Filename(r) = S("") /\ Function(r) = S("")

\* a normalizer handed out a row that is extended with a file name and no
\* function, and the join of another handed out a matched row with a function
\* and no file name
C6_Witness ==
    /\ Built
    /\ \/ /\ cat.class = "Catalog4FGLP"
          /\ \E r \in DOMAIN cat.table.rows :
               Filename(r) # S("") /\ Function(r) = S("") /\ IsExtended(r) = B(TRUE)
       \/ /\ cat.class = "Catalog4FGL"
          /\ \E r \in DOMAIN cat.table.rows :
               Filename(r) = S("") /\ Function(r) # S("") /\ IsExtended(r) = B(TRUE)

\* C7: in every entity of the FL8Y, 4FGL, 4FGL-DR2, 4FGL-DR3 and 4FGL-DR4
\* normalizers, on every row, extended and Extended are true exactly when
\* Extended_Source_Name is not empty, and that is exactly when
\* Spatial_Filename or Spatial_Function is not empty, also on rows whose
\* name matches no row of the extended-source table.
C7_TheTwoRulesAgree ==
    (Built /\ cat.class \in FGL8Classes)
    => \A r \in DOMAIN cat.table.rows :
          /\ IsExtended(r) = B(CrossReference(r) # S(""))
          /\ Cell(cat.table, r, "Extended") = B(CrossReference(r) # S(""))
          /\ CrossReference(r) # S("") <=> (Filename(r) # S("") \/ Function(r) # S(""))

\* a slot holds a number: a float, NaN, an infinity, or a computed norm
IsNumeric(x) == x[1] \in {"f", "nan", "inf", "eval_norm"}

\* C8: every entity Catalog.create returns has a param_values column with
\* exactly 10 numeric slots in every row, whichever normalizer was selected.
C8_CreatedEntitiesHaveParamValues ==
    (ccall.op = "create" /\ cat.status = "ok")
    => /\ HasColumn(cat.table, "param_values")
       /\ \A r \in DOMAIN cat.table.rows :
            /\ Len(Slots(Cell(cat.table, r, "param_values"))) = NSlots
            /\ \A i \in 1..NSlots : IsNumeric(Slots(Cell(cat.table, r, "param_values"))[i])

(***************************************************************************)
(* Claims about the parameter vector (SpecFill)                            *)
(***************************************************************************)
ParamsFilled == fout.status = "ok"

FinalType(r) == Text(Cell(fout.table, r, "SpectrumType"))

\* slot i of the row's vector, i counted from 0 as the code counts
Slot(r, i) == Slots(Cell(fout.table, r, "param_values"))[i + 1]

AllSlots == 0..(NSlots - 1)

Families == {"PowerLaw", "LogParabola", "PLSuperExpCutoff", "PLSuperExpCutoff2", "PLSuperExpCutoff4"}

\* the slots the canonical parameter names of a family index
FamilySlots(fn) == {Idx(registry, fn, registry[fn][k]) : k \in DOMAIN registry[fn]}

\* every number the row came with is finite
FiniteInputs(r) ==
    \A c \in DOMAIN fin.table.names :
        fin.table.kinds[c] = "f" => IsFinite(fin.table.rows[r][c])

FilledFamilies(class) ==
    CASE class = "Catalog2FHL" -> {"PowerLaw"}
      [] class = "Catalog3FGL" -> {"PowerLaw", "PLSuperExpCutoff", "LogParabola"}
      [] class \in {"CatalogFL8Y", "Catalog4FGL", "Catalog4FGLDR2"} ->
           {"PowerLaw", "PLSuperExpCutoff2", "LogParabola"}
      [] class \in {"Catalog4FGLDR3", "Catalog4FGLDR4"} ->
           {"PowerLaw", "PLSuperExpCutoff4", "LogParabola"}

\* flux x exp(...), the Prefactor of the two families that premultiply the
\* exponential, from the columns of the row
PremultipliedFlux(class, r) ==
    LET v(c) == Cell(fout.table, r, c)
    IN IF class = "Catalog3FGL"
       THEN Mul(v("Flux_Density"), Exp(Pow(Div(v("Pivot_Energy"), v("Cutoff")), v("Exp_Index"))))
       ELSE Mul(v(IF class = "CatalogFL8Y" THEN "Flux_Density" ELSE "PLEC_Flux_Density"),
                Exp(Mul(v("PLEC_Expfactor"), Pow(v("Pivot_Energy"), v("PLEC_Exp_Index")))))

FluxColumn(class) ==
    IF class \in {"Catalog2FHL", "Catalog3FGL", "CatalogFL8Y"} THEN "Flux_Density"
    ELSE "PL_Flux_Density"

IndexColumn(class) ==
    IF class \in {"Catalog2FHL", "Catalog3FGL"} THEN "Spectral_Index" ELSE "PL_Index"

\* C10: after every filling normalizer, on every PowerLaw row, the Index
\* slot is -1 times the release's spectral-index column, the Prefactor slot
\* is its flux-density column, the Scale slot is the pivot-energy column,
\* and every other slot is NaN.
C10_PowerLawSlots ==
    ParamsFilled => \A r \in DOMAIN fout.table.rows :
        FinalType(r) = "PowerLaw" =>
            \A i \in AllSlots :
                Slot(r, i) =
                    IF i = Idx(registry, "PowerLaw", "Prefactor")
                    THEN Cell(fout.table, r, FluxColumn(fin.class))
                    ELSE IF i = Idx(registry, "PowerLaw", "Index")
                    THEN Neg(Cell(fout.table, r, IndexColumn(fin.class)))
                    ELSE IF i = Idx(registry, "PowerLaw", "Scale")
                    THEN Cell(fout.table, r, "Pivot_Energy")
                    ELSE NaN

\* a PowerLaw row of index 2 got -2 in its Index slot, beside a row of
\* another type
C10_Witness ==
    /\ ParamsFilled
    /\ fin.class = "Catalog4FGLDR3"
    /\ \E r \in DOMAIN fout.table.rows :
         /\ FinalType(r) = "PowerLaw"
         /\ Cell(fout.table, r, "PL_Index") = Fin(2)
         /\ Slot(r, Idx(registry, "PowerLaw", "Index")) = Fin(-2)
         /\ Slot(r, Idx(registry, "PowerLaw", "Prefactor")) = Cell(fout.table, r, "PL_Flux_Density")
    /\ \E r \in DOMAIN fout.table.rows : FinalType(r) = "LogParabola"

\* the flux-density column of a release's PLSuperExpCutoff2 rule
PLECFluxColumn(class) ==
    IF class = "CatalogFL8Y" THEN "Flux_Density" ELSE "PLEC_Flux_Density"

PLEC2Classes == {"CatalogFL8Y", "Catalog4FGL", "Catalog4FGLDR2"}

\* C11: after the FL8Y, 4FGL and 4FGL-DR2 normalizers, on every row whose
\* SpectrumType is PLSuperExpCutoff2, the Prefactor slot is the flux density
\* times exp(expfactor x pivot ^ exp_index), the Index1 slot is -1 times the
\* index column, the Scale slot is the pivot energy, the Expfactor slot is
\* the expfactor column and the Index2 slot is the exp_index column.
C11_PLSuperExpCutoff2Slots ==
    (ParamsFilled /\ fin.class \in PLEC2Classes) =>
        \A r \in DOMAIN fout.table.rows :
            FinalType(r) = "PLSuperExpCutoff2" =>
                LET v(c) == Cell(fout.table, r, c)
                    slot(name) == Slot(r, Idx(registry, "PLSuperExpCutoff2", name))
                IN /\ slot("Prefactor") =
                        Mul(v(PLECFluxColumn(fin.class)),
                            Exp(Mul(v("PLEC_Expfactor"), Pow(v("Pivot_Energy"), v("PLEC_Exp_Index")))))
                   /\ slot("Index1") = Neg(v("PLEC_Index"))
                   /\ slot("Scale") = v("Pivot_Energy")
                   /\ slot("Expfactor") = v("PLEC_Expfactor")
                   /\ slot("Index2") = v("PLEC_Exp_Index")

\* a 4FGL row that came labelled PLSuperExpCutoff, with flux 3, expfactor 2,
\* pivot 10, exp_index 2 and index 4, has Prefactor 3 x exp(2 x 10^2),
\* Index1 -4, Scale 10, Expfactor 2 and Index2 2
C11_Witness ==
    /\ ParamsFilled
    /\ fin.class = "Catalog4FGL"
    /\ \E r \in DOMAIN fout.table.rows :
         /\ Text(Cell(fin.table, r, "SpectrumType")) = "PLSuperExpCutoff"
         /\ FinalType(r) = "PLSuperExpCutoff2"
         /\ Slot(r, 0) = Fl(3, 200)
         /\ Slot(r, 1) = Fin(-4)
         /\ Slot(r, 2) = Fin(10)
         /\ Slot(r, 3) = Fin(2)
         /\ Slot(r, 4) = Fin(2)

(***************************************************************************)
(* Claims about the slot a parameter lands in (SpecRegistry)               *)
(***************************************************************************)
\* what the same call leaves under the canonical registry
CanonicalFill == SpectralTail(fin.class, fin.table, CanonicalRegistry)

CanonicalSlot(r, i) == Slots(Cell(CanonicalFill.table, r, "param_values"))[i + 1]

\* C12: for any ordering of a family's names in the registry, every
\* normalizer writes the value of each parameter of the row's family to the
\* slot the registry gives that name: the value found there is the value
\* the canonical registry puts in the canonical slot of the name.
C12_SlotsFollowRegistry ==
    ParamsFilled => \A r \in DOMAIN fout.table.rows :
        FinalType(r) \in FilledFamilies(fin.class) =>
            \A k \in DOMAIN registry[FinalType(r)] :
                LET name == registry[FinalType(r)][k]
                IN Slot(r, Idx(registry, FinalType(r), name)) =
                     CanonicalSlot(r, Idx(CanonicalRegistry, FinalType(r), name))

(***************************************************************************)
(* Claims about Catalog.create (SpecCatalog)                               *)
(***************************************************************************)
FromPath == ccall.op = "create" /\ ccall.name.ext \in {".fits", ".fit"}

FromToken == ccall.op = "create" /\ ccall.name.ext = ""

FirstGeneration == {"v17", "v18", "v19", "v20", "v21", "v22"}

SecondGeneration == {"v23", "v24", "v25", "v26", "v27"}

ThirdGeneration == {"v28", "v29", "v30", "v31"}

FourthGeneration == {"v32", "v33", "v34", "v35"}

KnownVersions == FirstGeneration \cup SecondGeneration \cup ThirdGeneration \cup FourthGeneration

\* rule b: the class of the generation of a 4FGL file whose signature column
\* is present, "none" when the rule does not match
GenerationClass(file) ==
    LET tab == ReadFirst(file)
    IN IF file.cds_name # "4FGL" THEN "none"
       ELSE IF file.version \in FirstGeneration /\ HasColumn(tab, "PLEC_Index") THEN "Catalog4FGL"
       ELSE IF file.version \in SecondGeneration /\ HasColumn(tab, "PLEC_Index") THEN "Catalog4FGLDR2"
       ELSE IF file.version \in ThirdGeneration /\ HasColumn(tab, "PLEC_IndexS") THEN "Catalog4FGLDR3"
       ELSE IF file.version \in FourthGeneration /\ HasColumn(tab, "PLEC_IndexS") THEN "Catalog4FGLDR4"
       ELSE "none"

\* the class the first matching rule of a to f selects, "none" for rule c
FirstMatchingRule(file) ==
    IF file.cds_name = "3FGL" THEN "Catalog3FGL"
    ELSE IF file.cds_name = "FL8Y" THEN "CatalogFL8Y"
    ELSE IF GenerationClass(file) # "none" THEN GenerationClass(file)
    ELSE IF file.cds_name = "4FGL" /\ file.version \notin KnownVersions THEN "none"
    ELSE IF file.filename.stem = "gll_psch_v08" THEN "Catalog2FHL"
    ELSE IF HasColumn(ReadFirst(file), "NickName") THEN "Catalog4FGLP"
    ELSE "CatalogFPY"

\* C13: given a path, Catalog.create selects the normalizer of the first
\* rule that matches in the order a to f; a file not settled by a, b or c
\* whose name contains gll_psch_v08 goes to 2FHL before the NickName rule
\* and the user-catalog rule are considered.
C13_FirstMatchingRuleSelects ==
    FromPath => cat.class = FirstMatchingRule(cfile)

\* C14: given a file tagged 4FGL whose version tag is in no known range
\* (or absent), Catalog.create fails with the unrecognized-version error and
\* constructs nothing.
C14_UnknownVersionFails ==
    (FromPath /\ cfile.cds_name = "4FGL" /\ cfile.version \notin KnownVersions)
    => /\ cat.status = "Error - 4FGL catalog fits file version not recognised."
       /\ cat.class = "none"
       /\ cat.table = NoTable
       /\ cat.radec = <<>> /\ cat.glonlat = <<>>

\* a 4FGL file with no version tag, with the signature column of the first
\* generation in its table, was refused
C14_Witness ==
    /\ FromPath
    /\ cfile.cds_name = "4FGL"
    /\ cfile.version = ""
    /\ HasColumn(ReadFirst(cfile), "PLEC_Index")
    /\ cat.status = "Error - 4FGL catalog fits file version not recognised."

ReleaseTokens == {"3FGL", "2FHL", "FL8Y", "4FGL", "4FGL-DR2", "4FGL-DR3", "4FGL-DR4"}

\* the class and the bundled file of a release token
ReleaseOf(token) ==
    CASE token = "3FGL" -> <<"Catalog3FGL", "gll_psc_v16">>
      [] token = "2FHL" -> <<"Catalog2FHL", "gll_psch_v08">>
      [] token = "FL8Y" -> <<"CatalogFL8Y", "gll_psc_8year_v5">>
      [] token = "4FGL" -> <<"Catalog4FGL", "gll_psc_v20">>
      [] token = "4FGL-DR2" -> <<"Catalog4FGLDR2", "gll_psc_v27">>
      [] token = "4FGL-DR3" -> <<"Catalog4FGLDR3", "gll_psc_v29">>
      [] token = "4FGL-DR4" -> <<"Catalog4FGLDR4", "gll_psc_v35">>

\* C15: given a release token, Catalog.create constructs the class of that
\* release on its bundled file; given any other token it fails with the
\* unrecognized-catalog error, opens no file and constructs nothing.
C15_TokensMapToReleases ==
    FromToken =>
        IF ccall.name.stem \in ReleaseTokens
        THEN /\ cat.class = ReleaseOf(ccall.name.stem)[1]
             /\ ccall.fitsfile = [stem |-> ReleaseOf(ccall.name.stem)[2], ext |-> ".fit"]
        ELSE /\ cat.status = "Unrecognized catalog"
             /\ cat.class = "none"
             /\ cat.table = NoTable
             /\ cat.radec = <<>> /\ cat.glonlat = <<>>
             /\ ccall.fitsfile = NoFile

\* the token 5FGL was refused while a well-formed catalog file lay ready
C15_Witness ==
    /\ FromToken
    /\ ccall.name.stem = "5FGL"
    /\ cfile.cds_name = "3FGL"
    /\ cat.status = "Unrecognized catalog"
    /\ ccall.fitsfile = NoFile

(***************************************************************************)
(* Claims about missing columns (SpecCatalog)                              *)
(***************************************************************************)
Called == ccall.op # "none"

\* C16: a call of the base constructor or of a normalizer on a table in
\* which RAJ2000 or DEJ2000 (either alone) is absent fails with an error,
\* hands out no entity, and fails before the base constructor adds or
\* changes a column: the table it was given is as it was, with no extended
\* and no extdir column.
C16_MissingPositionFails ==
    (Called /\ (~HasColumn(TableBefore, "RAJ2000") \/ ~HasColumn(TableBefore, "DEJ2000")))
    => /\ cat.status # "ok"
       /\ cat.radec = <<>> /\ cat.glonlat = <<>>
       /\ ~HasColumn(cat.table, "extended")
       /\ ~HasColumn(cat.table, "extdir")
       /\ ccall.op = "Catalog" => cat.table = TableBefore

\* the 3FGL normalizer joined and sorted a table that has RAJ2000 and no
\* DEJ2000, and the base constructor refused it
C16_Witness ==
    /\ FromPath
    /\ cat.class = "Catalog3FGL"
    /\ HasColumn(TableBefore, "RAJ2000") /\ ~HasColumn(TableBefore, "DEJ2000")
    /\ cat.status = "KeyError"
    /\ HasColumn(cat.table, "Model_Form")
    /\ ~HasColumn(cat.table, "extended")

OptionalColumns == {"beta", "Beta", "LP_beta", "Cutoff", "Cutoff_Energy", "Test_Statistic"}

\* the classes that read the files of a flavour
ClassesOf(flavour) ==
    CASE flavour = "3FGL" -> {"Catalog3FGL"}
      [] flavour = "FL8Y" -> {"CatalogFL8Y"}
      [] flavour = "4FGL" -> {"Catalog4FGL", "Catalog4FGLDR2"}
      [] flavour = "4FGL-DR3" -> {"Catalog4FGLDR3", "Catalog4FGLDR4"}
      [] flavour = "2FHL" -> {"Catalog2FHL"}
      [] flavour = "4FGLP" -> {"Catalog4FGLP"}
      [] flavour = "FPY" -> {"CatalogFPY"}

\* the first table has every column of a file of its class but one optional
\* spectral column
LacksAnOptionalColumn ==
    \E fl \in Flavours : \E c \in OptionalColumns :
        /\ cat.class \in ClassesOf(fl)
        /\ c \in Range(PrimaryColumns(fl))
        /\ Range(TableBefore.names) = Range(PrimaryColumns(fl)) \ {c}

\* C17: a file that lacks one release-specific optional column (beta or
\* Beta, Cutoff or Cutoff_Energy, Test_Statistic) still loads: the
\* normalizer skips what depends on the column and returns an entity.
C17_MissingOptionalColumnTolerated ==
    (FromPath /\ LacksAnOptionalColumn) => cat.status = "ok"

(***************************************************************************)
(* Claims about the post-processing (SpecCatalog)                          *)
(***************************************************************************)
NameColumn == IF cat.class = "Catalog4FGLP" THEN "NickName" ELSE "Source_Name"

\* the SpectrumType the file gives the source of row r of the entity
LabelBefore(r) ==
    LET i == CHOOSE i \in DOMAIN TableBefore.rows :
                 Cell(TableBefore, i, NameColumn) = Cell(cat.table, r, "Source_Name")
    IN Text(Cell(TableBefore, i, "SpectrumType"))

LabelAfter(r) == Text(Cell(cat.table, r, "SpectrumType"))

\* the legacy label of a class and the label that replaces it
LegacyLabel(class) ==
    CASE class \in {"Catalog3FGL", "Catalog4FGLP"} -> <<"PLExpCutoff", "PLSuperExpCutoff">>
      [] class \in {"Catalog4FGL", "Catalog4FGLDR2"} -> <<"PLSuperExpCutoff", "PLSuperExpCutoff2">>
      [] class \in {"Catalog4FGLDR3", "Catalog4FGLDR4"} -> <<"PLSuperExpCutoff", "PLSuperExpCutoff4">>
      [] OTHER -> <<"none", "none">>

\* the Spatial_Function the extended-source table gives the source of row r
FunctionBefore(r) ==
    LET ext == ReadNamed(cfile, "ExtendedSources")
        hits == {j \in DOMAIN ext.rows : Cell(ext, j, "Source_Name") = CrossReference(r)}
    IN IF hits = {} THEN ""
       ELSE IF ~HasColumn(ext, "Spatial_Function") THEN "SpatialMap"
       ELSE Text(Cell(ext, CHOOSE j \in hits : TRUE, "Spatial_Function"))

RelabelingClasses == {"Catalog3FGL", "Catalog4FGLP"} \cup (FGL8Classes \ {"CatalogFL8Y"})

\* C18: in an entity of a relabeling normalizer no row keeps the legacy
\* SpectrumType of its class (PLExpCutoff in 3FGL and preliminary 4FGL,
\* PLSuperExpCutoff in the 4FGL releases): each such row carries the current
\* label; in 3FGL, FL8Y and the 4FGL releases no row has Spatial_Function
\* RadialGauss, each such row has RadialGaussian; every other row keeps the
\* SpectrumType and the Spatial_Function it came with.
C18_LegacyLabelsReplaced ==
    Built =>
        /\ cat.class \in RelabelingClasses =>
              \A r \in DOMAIN cat.table.rows :
                 /\ LabelAfter(r) # LegacyLabel(cat.class)[1]
                 /\ LabelAfter(r) = IF LabelBefore(r) = LegacyLabel(cat.class)[1]
                                    THEN LegacyLabel(cat.class)[2] ELSE LabelBefore(r)
        /\ cat.class \in {"Catalog3FGL"} \cup FGL8Classes =>
              \A r \in DOMAIN cat.table.rows :
                 /\ Function(r) # S("RadialGauss")
                 /\ Function(r) = IF FunctionBefore(r) = "RadialGauss"
                                   THEN S("RadialGaussian") ELSE S(FunctionBefore(r))

\* the sum of the squares of the finite values of the band columns present
RECURSIVE BandSquares(_, _)
BandSquares(r, keys) ==
    IF keys = <<>> THEN 0
    ELSE (IF HasColumn(cat.table, Head(keys)) /\ IsFinite(Cell(cat.table, r, Head(keys)))
          THEN Cell(cat.table, r, Head(keys))[2] * Cell(cat.table, r, Head(keys))[2]
          ELSE 0) + BandSquares(r, Tail(keys))

\* C19: in an entity of FL8Y and of the 4FGL releases TS is Signif_Avg
\* squared on every row; in a 3FGL entity TS and TS_value are equal and are
\* the sum of the squares of the row's finite values in the per-band
\* Sqrt_TS columns that are present (0 when there is none).
C19_TSRecomputed ==
    Built =>
        /\ cat.class \in FGL8Classes =>
              \A r \in DOMAIN cat.table.rows :
                 Cell(cat.table, r, "TS") =
                    Mul(Cell(cat.table, r, "Signif_Avg"), Cell(cat.table, r, "Signif_Avg"))
        /\ cat.class = "Catalog3FGL" =>
              \A r \in DOMAIN cat.table.rows :
                 /\ Cell(cat.table, r, "TS") = Fin(BandSquares(r, ts_keys))
                 /\ Cell(cat.table, r, "TS_value") = Cell(cat.table, r, "TS")

\* a 3FGL entity whose band of 30-100 MeV is NaN and whose band of
\* 100-300 MeV is 2 has TS = TS_value = 4
C19_Witness ==
    /\ Built
    /\ cat.class = "Catalog3FGL"
    /\ \E r \in DOMAIN cat.table.rows :
         /\ HasColumn(cat.table, "Sqrt_TS30_100")
         /\ IsNaN(Cell(cat.table, r, "Sqrt_TS30_100"))
         /\ Cell(cat.table, r, "Sqrt_TS100_300") = Fin(2)
         /\ Cell(cat.table, r, "TS") = Fin(4)
         /\ Cell(cat.table, r, "TS_value") = Fin(4)

NormalizerClasses == {"CatalogFPY", "Catalog2FHL", "Catalog3FGL", "Catalog4FGLP"} \cup FGL8Classes

SortingClasses == {"Catalog2FHL", "Catalog3FGL"} \cup FGL8Classes

\* radec and glonlat hold, entry by entry, the positions of the rows of the
\* final table
Aligned ==
    /\ Len(cat.radec) = Len(cat.table.rows)
    /\ Len(cat.glonlat) = Len(cat.table.rows)
    /\ \A i \in DOMAIN cat.table.rows :
         /\ cat.radec[i] = <<Cell(cat.table, i, "RAJ2000"), Cell(cat.table, i, "DEJ2000")>>
         /\ cat.glonlat[i] = Galactic(Cell(cat.table, i, "RAJ2000"), Cell(cat.table, i, "DEJ2000"))

Ascending ==
    \A i, j \in DOMAIN cat.table.rows :
        i < j => Rank(Cell(cat.table, i, "Source_Name")) <= Rank(Cell(cat.table, j, "Source_Name"))

\* C20 as stated: in every entity a normalizer built, radec and glonlat are
\* aligned with the rows of the final table and the rows ascend by
\* Source_Name.
C20_AlignedAndSorted ==
    (Built /\ cat.class \in NormalizerClasses) => (Aligned /\ Ascending)

\* C20 amended: in every entity a normalizer built, radec and glonlat are
\* aligned with the rows of the final table; the rows ascend by Source_Name
\* in the entities of the normalizers that join and sort (2FHL, 3FGL, FL8Y
\* and the 4FGL releases), and stand in the order of the file in those of
\* the preliminary-4FGL and user-catalog normalizers.
C20_AlignedAndSortedWhereJoined ==
    (Built /\ cat.class \in NormalizerClasses) =>
        /\ Aligned
        /\ cat.class \in SortingClasses => Ascending
        /\ cat.class \notin SortingClasses =>
              Column(cat.table, "Source_Name") = Column(TableBefore, NameColumn)

\* a 4FGL entity built from a file that lists B before A has A first, with
\* the position of A first in radec
C20_Witness ==
    /\ Built
    /\ cat.class = "Catalog4FGL"
    /\ Len(TableBefore.rows) = 2
    /\ Cell(TableBefore, 1, "Source_Name") = S("B")
    /\ Cell(TableBefore, 2, "Source_Name") = S("A")
    /\ Cell(cat.table, 1, "Source_Name") = S("A")
    /\ cat.radec[1] = <<Cell(TableBefore, 2, "RAJ2000"), Cell(TableBefore, 2, "DEJ2000")>>
    /\ cat.radec[1] # cat.radec[2]

====
